---- MODULE Spec2Model ----
(***************************************************************************)
(* A model of the v8kit binding runtime: the Engine's class registry and   *)
(* managed-resource lifetime manager, ClassMeta::castTo / isA, the         *)
(* function adapter (wrapFunction, dispatchOverloadImpl), the              *)
(* return-value policy resolver, the instance holders behind managed       *)
(* objects and the type converters.                                        *)
(***************************************************************************)
EXTENDS Integers, Sequences, FiniteSets, TLC

\* ------------------------------------------------------------------------
\* Bounds
\* ------------------------------------------------------------------------
MaxResources == 2

MaxPtr == 3

MaxArgs == 3

\* the deepest nesting of vector and optional converted
MaxNest == 2

\* the most nodes (leaves, optionals, vectors) of a value converted
MaxSize == 4

\* the longest class name given to a ClassMetaBuilder
MaxName == 5

\* the most EngineScopes one thread keeps live at a time
MaxScopes == 2

Res == 1 .. MaxResources

\* ------------------------------------------------------------------------
\* ClassMeta objects handed to the engine (MetaInfo.h, struct ClassMeta).
\* base is the index of the base meta (NoMeta for base_ == nullptr);
\* hasUpcaster/offset describe upcaster_ (a Derived* -> Base* adjustment).
\* ------------------------------------------------------------------------
NoMeta == 0

NullPtr == 0

\* non-null native addresses
Ptrs == 1 .. MaxPtr

MetaTable ==
    << [name |-> "Animal", typeId |-> 1, base |-> 0, ctor |-> TRUE,  hasUpcaster |-> FALSE, offset |-> 0],
       [name |-> "Dog",    typeId |-> 2, base |-> 1, ctor |-> TRUE,  hasUpcaster |-> TRUE,  offset |-> 1],
       [name |-> "Puppy",  typeId |-> 3, base |-> 2, ctor |-> TRUE,  hasUpcaster |-> TRUE,  offset |-> 2],
       [name |-> "Alias",  typeId |-> 1, base |-> 0, ctor |-> TRUE,  hasUpcaster |-> FALSE, offset |-> 0],
       [name |-> "Animal", typeId |-> 4, base |-> 0, ctor |-> TRUE,  hasUpcaster |-> FALSE, offset |-> 0],
       [name |-> "Static", typeId |-> 5, base |-> 0, ctor |-> FALSE, hasUpcaster |-> FALSE, offset |-> 0],
       [name |-> "Sub",    typeId |-> 6, base |-> 6, ctor |-> TRUE,  hasUpcaster |-> TRUE,  offset |-> 0],
       [name |-> "Cat",    typeId |-> 7, base |-> 1, ctor |-> TRUE,  hasUpcaster |-> FALSE, offset |-> 0] >>

Metas == DOMAIN MetaTable

Names == { MetaTable[m].name : m \in Metas }

TypeIds == { MetaTable[m].typeId : m \in Metas }

hasConstructor(m) == MetaTable[m].ctor

\* ------------------------------------------------------------------------
\* State
\* ------------------------------------------------------------------------
VARIABLES
    managedResources_,   \* Engine::managedResources_ : keys (ManagedResource records)
    registeredClasses_,  \* Engine::registeredClasses_ : name -> meta
    classConstructors_,  \* Engine::classConstructors_ : meta -> function template
    typeMapping_,        \* Engine::typeMapping_ : typeId -> meta
    isDestroying_,       \* Engine::isDestroying_
    weak,                \* per record: state of the weak v8::Global made by addManagedResource
    deleterCalls,        \* per record: how often key->deleter(key->resource) ran
    freeCount,           \* per record: how often the ManagedResource record was deleted
    objClass,            \* per record: meta of the instance whose payload it manages (NoMeta: none)
    lastOp,              \* the operation that ran last and how it ended
    castFrame,           \* the activation of ClassMeta::castTo in progress
    call,                \* the call of a wrapped function or overload set in progress
    toJsCall,            \* the conversion of a native object to a script object in progress
    holder,              \* per record: InstancePayload::holder_ of the payload it manages
    rooted,              \* per record: the script holds a reference to the managed object
    parentRef,           \* per record: internal field ParentClassThisRef of the managed object
    destroyed,           \* per native object: how often its destructor ran
    lastUse,             \* the last use of a payload from a callback and its result
    conv,                \* the conversion of a native value to a script value and back
    builder,             \* the ClassMetaBuilder constructor's scan of a class name
    prop,                \* a native property bound to script and the last script access to it
    ctorCall,            \* the last call of a class's constructor function
    resolved,            \* the last resolveCastSource call and its result
    holderCast,          \* the last NativeInstance::cast on a holder made from a resolved source
    finalizer,           \* the threads touching managedResources_ and where each stands
    engines,             \* the Engine objects of one isolate across a move construction
    scopes               \* per thread: the stack of live EngineScopes

engineVars == << managedResources_, registeredClasses_, classConstructors_, typeMapping_,
                 isDestroying_, weak, deleterCalls, freeCount, objClass, lastOp >>

adapterVars == << castFrame, call, toJsCall >>

heapVars == << holder, rooted, parentRef, destroyed, lastUse >>

bindingVars == << conv, builder, prop >>

runtimeVars == << ctorCall, resolved, holderCast, finalizer, engines, scopes >>

vars == << engineVars, adapterVars, heapVars, bindingVars, runtimeVars >>

EmptyMap == [k \in {} |-> 0]

\* std::unordered_map::emplace: inserts only when the key is absent
Emplace(map, k, v) == IF k \in DOMAIN map THEN map ELSE map @@ (k :> v)

Idle == [op |-> "none", result |-> "ok"]

InitEngine ==
    /\ managedResources_ = {}
    /\ registeredClasses_ = EmptyMap
    /\ classConstructors_ = EmptyMap
    /\ typeMapping_ = EmptyMap
    /\ isDestroying_ = FALSE
    /\ weak = [r \in Res |-> "none"]
    /\ deleterCalls = [r \in Res |-> 0]
    /\ freeCount = [r \in Res |-> 0]
    /\ objClass = [r \in Res |-> NoMeta]
    /\ lastOp = Idle

\* ------------------------------------------------------------------------
\* Native objects and the holders of managed objects
\* (NativeInstanceImpl.h, InstancePayload.h)
\* ------------------------------------------------------------------------

\* the native object native code hands to toJs
Originals == {1}

\* the object a Copy or Move for record r constructs
CloneOf(r) == Cardinality(Originals) + r

NativeIds == Originals \cup { CloneOf(r) : r \in Res }

\* holder_ == nullptr before the payload exists. state: "held" while
\* holder_ is set, "released" once it was reset or deleted with its payload;
\* owned: the Holder is a unique_ptr (is_owned); native: the object value_
\* points to; const: the element type is const (is_const); parent: the
\* parent toJs linked the managed object to (0: none).
NoHolder == [state |-> "none", owned |-> FALSE, native |-> 0, const |-> FALSE, parent |-> 0]

\* finalized: holder_ was null at the use; result "pointer": the address
\* in value_ was handed out; wrote: a method wrote to that object
NoUse == [kind |-> "none", finalized |-> FALSE, result |-> "none", wrote |-> FALSE]

InitHeap ==
    /\ holder = [r \in Res |-> NoHolder]
    /\ rooted = [r \in Res |-> FALSE]
    /\ parentRef = [r \in Res |-> 0]
    /\ destroyed = [n \in NativeIds |-> 0]
    /\ lastUse = NoUse

\* ~NativeInstanceImpl for the holders of the records in who: the holder is
\* gone, and a unique_ptr holder runs the destructor of its element
ReleasedHolders(who) ==
    [r \in Res |-> IF r \in who /\ holder[r].state = "held"
                   THEN [holder[r] EXCEPT !.state = "released"]
                   ELSE holder[r]]

DestructorRuns(who) ==
    [n \in NativeIds |->
        destroyed[n] + Cardinality({ r \in who : /\ holder[r].state = "held"
                                                 /\ holder[r].owned
                                                 /\ holder[r].native = n })]

\* the managed objects the collector can reach: those the script refers
\* to and, through the internal field ParentClassThisRef, their parents
RECURSIVE ReachClosure(_)
ReachClosure(S) ==
    LET T == S \cup { q \in Res : \E c \in S : parentRef[c] = q /\ weak[q] = "weak" }
    IN  IF T = S THEN S ELSE ReachClosure(T)

Reachable(r) == r \in ReachClosure({ q \in Res : rooted[q] /\ weak[q] = "weak" })

\* the records whose deleter runs in this step; the deleter installed by
\* newConstructor deletes the InstancePayload and with it the holder
PayloadsDeleted == { r \in Res : deleterCalls'[r] > deleterCalls[r] }

\* ------------------------------------------------------------------------
\* Lifetime manager
\* ------------------------------------------------------------------------

\* The body of addManagedResource: a fresh record r, a weak global for the
\* value, and the pair emplaced into managedResources_.
addManagedResourceBody(r) ==
    /\ managedResources_' = managedResources_ \cup {r}
    /\ weak' = [weak EXCEPT ![r] = "weak"]

AddManagedResource(r) ==
    /\ ~isDestroying_
    /\ weak[r] = "none"
    /\ addManagedResourceBody(r)
    /\ lastOp' = [op |-> "addManagedResource", result |-> "ok"]
    /\ UNCHANGED << adapterVars, heapVars, bindingVars, runtimeVars >>
    /\ UNCHANGED << registeredClasses_, classConstructors_, typeMapping_, isDestroying_,
                    deleterCalls, freeCount, objClass >>

\* a first pass that leaves the record in the registry
FirstPassKeep(r) == managedResources_

\* First pass of the weak callback: erase the record from the registry
\* (which drops the weak global) and schedule the second pass.
FirstPassErase(r) == managedResources_ \ {r}

GCFirstPass(r) ==
    /\ weak[r] = "weak"
    /\ ~Reachable(r)                \* the collector found the value unreachable
    /\ r \in managedResources_      \* assert(iter != managedResources_.end())
    /\ managedResources_' = FirstPassErase(r)
    /\ weak' = [weak EXCEPT ![r] = "pending"]
    /\ lastOp' = [op |-> "firstPass", result |-> "ok"]
    /\ UNCHANGED << adapterVars, heapVars, bindingVars, runtimeVars >>
    /\ UNCHANGED << registeredClasses_, classConstructors_, typeMapping_, isDestroying_,
                    deleterCalls, freeCount, objClass >>

\* Second pass of the weak callback: `delete managed`.
SecondPassDeleterCalls(r) == deleterCalls

GCSecondPass(r) ==
    /\ weak[r] = "pending"
    /\ freeCount' = [freeCount EXCEPT ![r] = @ + 1]
    /\ deleterCalls' = SecondPassDeleterCalls(r)
    /\ weak' = [weak EXCEPT ![r] = "done"]
    /\ lastOp' = [op |-> "secondPass", result |-> "ok"]
    /\ holder' = ReleasedHolders(PayloadsDeleted)
    /\ destroyed' = DestructorRuns(PayloadsDeleted)
    /\ UNCHANGED << adapterVars, bindingVars, runtimeVars, rooted, parentRef, lastUse >>
    /\ UNCHANGED << managedResources_, registeredClasses_, classConstructors_, typeMapping_,
                    isDestroying_, objClass >>

\* a teardown that frees the records without running their deleters
TeardownNoDeleter == deleterCalls

\* Engine::~Engine
TeardownDeleterCalls == [r \in Res |-> IF r \in managedResources_ THEN deleterCalls[r] + 1
                                       ELSE deleterCalls[r]]

Teardown ==
    /\ UNCHANGED << adapterVars, bindingVars, runtimeVars >>
    /\ IF isDestroying_
       THEN /\ lastOp' = [op |-> "teardown", result |-> "noop"]
            /\ UNCHANGED << managedResources_, registeredClasses_, classConstructors_, typeMapping_,
                            isDestroying_, weak, deleterCalls, freeCount, objClass >>
            /\ UNCHANGED heapVars
       ELSE /\ isDestroying_' = TRUE
            /\ weak' = [r \in Res |-> IF r \in managedResources_ THEN "reset" ELSE weak[r]]
            /\ deleterCalls' = TeardownDeleterCalls
            /\ freeCount' = [r \in Res |-> IF r \in managedResources_ THEN freeCount[r] + 1
                                           ELSE freeCount[r]]
            /\ classConstructors_' = EmptyMap
            /\ registeredClasses_' = EmptyMap
            /\ managedResources_' = {}
            /\ lastOp' = [op |-> "teardown", result |-> "ok"]
            /\ holder' = ReleasedHolders(PayloadsDeleted)
            /\ destroyed' = DestructorRuns(PayloadsDeleted)
            /\ rooted' = [r \in Res |-> FALSE]       \* context_.Reset(), isolate_->Dispose()
            /\ UNCHANGED << typeMapping_, objClass, parentRef, lastUse >>

\* ------------------------------------------------------------------------
\* ClassMeta::isA (MetaInfo.h)
\* ------------------------------------------------------------------------
RECURSIVE isAWalk(_, _)
isAWalk(curr, typeIdx) ==
    IF curr = NoMeta THEN FALSE
    ELSE IF MetaTable[curr].typeId = typeIdx THEN TRUE
    ELSE isAWalk(MetaTable[curr].base, typeIdx)

isA(m, typeIdx) ==
    IF MetaTable[m].typeId = typeIdx THEN TRUE
    ELSE IF MetaTable[m].base = NoMeta THEN FALSE
    ELSE isAWalk(MetaTable[m].base, typeIdx)

\* ------------------------------------------------------------------------
\* Class registry
\* ------------------------------------------------------------------------

\* Engine::getClassMeta / getClassDefine
getClassDefine(typeId) == IF typeId \in DOMAIN typeMapping_ THEN typeMapping_[typeId] ELSE NoMeta

\* the duplicate check at the head of registerClass
RegisterDuplicate(m) == MetaTable[m].name \in DOMAIN registeredClasses_

\* base checks that do not look the base up in classConstructors_
RegisterBaseCheckNoLookup(m) ==
    LET b == MetaTable[m].base IN
    IF b = NoMeta THEN "ok"
    ELSE IF ~hasConstructor(b) THEN "base_without_constructor"
    ELSE "ok"

\* the base checks of registerClass; "ok" when the class may inherit
RegisterBaseCheck(m) ==
    LET b == MetaTable[m].base IN
    IF b = NoMeta THEN "ok"
    ELSE IF ~hasConstructor(b) THEN "base_without_constructor"
    ELSE IF b \notin DOMAIN classConstructors_ THEN "base_not_registered"
    ELSE "ok"

\* the function template built for m: ctor->Inherit(baseCtor) links it to
\* the template found for meta.base_
NewTemplate(m) == [inherit |-> MetaTable[m].base, throws |-> ~hasConstructor(m)]

RegisterClass(m) ==
    /\ ~isDestroying_
    /\ IF RegisterDuplicate(m)
       THEN /\ lastOp' = [op |-> "registerClass", result |-> "already_registered"]
            /\ UNCHANGED << registeredClasses_, classConstructors_, typeMapping_ >>
       ELSE IF RegisterBaseCheck(m) # "ok"
       THEN /\ lastOp' = [op |-> "registerClass", result |-> RegisterBaseCheck(m)]
            /\ UNCHANGED << registeredClasses_, classConstructors_, typeMapping_ >>
       ELSE /\ registeredClasses_' = Emplace(registeredClasses_, MetaTable[m].name, m)
            /\ classConstructors_' = Emplace(classConstructors_, m, NewTemplate(m))
            /\ typeMapping_' = Emplace(typeMapping_, MetaTable[m].typeId, m)
            /\ lastOp' = [op |-> "registerClass", result |-> "ok"]
    /\ UNCHANGED << managedResources_, isDestroying_, weak, deleterCalls, freeCount, objClass >>
    /\ UNCHANGED << adapterVars, heapVars, bindingVars, runtimeVars >>

\* The constructor callback installed by newConstructor, reached through
\* Engine::newInstance (sentinel symbol + external) or through script `new`.
\* fromJs: the call came from script; built: the class's constructor
\* callback returned an instance.
Construct(m, r, fromJs, built) ==
    /\ ~isDestroying_
    /\ weak[r] = "none"
    /\ IF m \notin DOMAIN classConstructors_
       THEN /\ lastOp' = [op |-> "construct", result |-> "not_registered"]
            /\ UNCHANGED << managedResources_, weak, objClass >>
       ELSE IF classConstructors_[m].throws
       THEN /\ lastOp' = [op |-> "construct", result |-> "illegal_constructor"]
            /\ UNCHANGED << managedResources_, weak, objClass >>
       ELSE IF fromJs /\ ~built
       THEN /\ lastOp' = [op |-> "construct", result |-> "cannot_be_constructed"]
            /\ UNCHANGED << managedResources_, weak, objClass >>
       ELSE /\ objClass' = [objClass EXCEPT ![r] = m]
            /\ addManagedResourceBody(r)
            /\ lastOp' = [op |-> "construct", result |-> "ok"]
    /\ UNCHANGED << registeredClasses_, classConstructors_, typeMapping_, isDestroying_,
                    deleterCalls, freeCount >>
    /\ UNCHANGED << adapterVars, heapVars, bindingVars, runtimeVars >>

newInstance(m, r) == Construct(m, r, FALSE, TRUE)

ScriptNew(m, r, built) ==
    /\ m \in DOMAIN classConstructors_     \* the class function is a global of the script
    /\ Construct(m, r, TRUE, built)

\* how the constructor function of a class is called: by script with new,
\* by script as a plain function, or by Engine::newInstance with the
\* engine's sentinel symbol and an external pointer
CtorCallers == {"script_new", "script_call", "native"}

\* what the class's constructor callback does when it runs: it returns an
\* instance, returns nullptr (disabled constructor, no overload matching
\* the arguments) or raises
CtorYields == {"instance", "null", "raises"}

\* callbackRuns: how often the class's constructor callback ran in the
\* call; payload: an InstancePayload was put in the object's internal field;
\* constructFromJs: InstancePayload::constructFromJs_; managed: the payload
\* was handed to addManagedResource
NoCtorCall == [how |-> "none", meta |-> NoMeta, yields |-> "none", callbackRuns |-> 0,
               payload |-> FALSE, constructFromJs |-> FALSE, managed |-> FALSE,
               result |-> "none"]

\* a constructor function that treats every call as one from script
constructFromJsAlways(how) == TRUE

\* the arguments are not (constructorSymbol_, External)
constructFromJs(how) == how # "native"

CtorFailed(m, how, yields, runs, result) ==
    /\ ctorCall' = [how |-> how, meta |-> m, yields |-> yields, callbackRuns |-> runs,
                    payload |-> FALSE, constructFromJs |-> FALSE, managed |-> FALSE,
                    result |-> result]
    /\ UNCHANGED << managedResources_, weak, objClass >>

\* The function made by registerClass for a registered class m, called for
\* a new object that would get record r. A class without constructor has a
\* function that always throws (ConstructorBehavior::kThrow); otherwise it
\* is the callback installed by newConstructor.
ConstructorCall(m, r, how, yields) ==
    /\ ~isDestroying_
    /\ weak[r] = "none"
    /\ m \in DOMAIN classConstructors_
    /\ IF classConstructors_[m].throws
       THEN CtorFailed(m, how, yields, 0, "illegal_constructor")
       ELSE IF how = "script_call"
       THEN CtorFailed(m, how, yields, 0, "cannot_be_called_as_function")
       ELSE IF constructFromJs(how) /\ yields = "raises"
       THEN CtorFailed(m, how, yields, 1, "callback_raised")
       ELSE IF constructFromJs(how) /\ yields = "null"
       THEN CtorFailed(m, how, yields, 1, "cannot_be_constructed")
       ELSE /\ ctorCall' = [how |-> how, meta |-> m, yields |-> yields,
                            callbackRuns |-> IF constructFromJs(how) THEN 1 ELSE 0,
                            payload |-> TRUE, constructFromJs |-> constructFromJs(how),
                            managed |-> TRUE, result |-> "ok"]
            /\ objClass' = [objClass EXCEPT ![r] = m]
            /\ addManagedResourceBody(r)
    /\ lastOp' = [op |-> "construct", result |-> ctorCall'.result]
    /\ UNCHANGED << registeredClasses_, classConstructors_, typeMapping_, isDestroying_,
                    deleterCalls, freeCount >>
    /\ UNCHANGED << adapterVars, heapVars, bindingVars >>
    /\ UNCHANGED << resolved, holderCast, finalizer, engines, scopes >>

\* v8::FunctionTemplate::HasInstance: the object was created from the
\* template or from a template that inherits from it.
RECURSIVE TemplateChainHas(_, _)
TemplateChainHas(t, d) ==
    IF t = NoMeta THEN FALSE
    ELSE IF t = d THEN TRUE
    ELSE IF t \notin DOMAIN classConstructors_ THEN FALSE
    ELSE TemplateChainHas(classConstructors_[t].inherit, d)

\* Engine::isInstanceOf for the live object whose payload is record r
isInstanceOf(r, d) ==
    IF d \notin DOMAIN classConstructors_ THEN FALSE
    ELSE TemplateChainHas(objClass[r], d)

\* ------------------------------------------------------------------------
\* ClassMeta::castTo (MetaInfo.h), one activation per step
\* ------------------------------------------------------------------------
NoCast == [stage |-> "idle", meta |-> NoMeta, ptr |-> NullPtr, target |-> 0, steps |-> 0,
           result |-> NullPtr, from |-> NoMeta, arg |-> NullPtr]

\* upcaster_(ptr): Derived* -> Base*, the address may change
upcaster(m, ptr) == ptr + MetaTable[m].offset

\* an activation that forwards the pointer to the base without adjusting it
castToStepNoAdjust(f) ==
    IF MetaTable[f.meta].typeId = f.target
    THEN [f EXCEPT !.stage = "done", !.result = f.ptr, !.steps = @ + 1]
    ELSE IF MetaTable[f.meta].base # NoMeta /\ MetaTable[f.meta].hasUpcaster
    THEN [f EXCEPT !.meta = MetaTable[f.meta].base, !.steps = @ + 1]
    ELSE [f EXCEPT !.stage = "done", !.result = NullPtr, !.steps = @ + 1]

\* one activation of castTo(ptr, targetId) on f.meta
castToStep(f) ==
    IF MetaTable[f.meta].typeId = f.target
    THEN [f EXCEPT !.stage = "done", !.result = f.ptr, !.steps = @ + 1]
    ELSE IF MetaTable[f.meta].base # NoMeta /\ MetaTable[f.meta].hasUpcaster
    THEN [f EXCEPT !.meta = MetaTable[f.meta].base,
                   !.ptr = upcaster(f.meta, f.ptr),
                   !.steps = @ + 1]
    ELSE [f EXCEPT !.stage = "done", !.result = NullPtr, !.steps = @ + 1]

CastToCall(m, p, t) ==
    /\ castFrame.stage # "running"
    /\ castFrame' = [stage |-> "running", meta |-> m, ptr |-> p, target |-> t, steps |-> 0,
                     result |-> NullPtr, from |-> m, arg |-> p]
    /\ UNCHANGED << engineVars, heapVars, bindingVars, runtimeVars, call, toJsCall >>

CastToStep ==
    /\ castFrame.stage = "running"
    /\ castFrame' = castToStep(castFrame)
    /\ UNCHANGED << engineVars, heapVars, bindingVars, runtimeVars, call, toJsCall >>

\* ------------------------------------------------------------------------
\* Function adapter (Adapter.inl): wrapFunction and dispatchOverloadImpl
\* ------------------------------------------------------------------------

\* Script values by kind, as the converters tell them apart
JsKinds == {"string", "number"}

\* The functions bound under one name, each by its parameter types. One
\* function is wrapped by wrapFunction alone; several are merged by
\* wrapOverloadFuncAndExtraPolicy and called through dispatchOverloadImpl.
OverloadTable ==
    << << <<"string", "string">>, <<"string", "int">> >>,
       << <<"int", "int">> >>,
       << <<"string">>, <<"int", "string">>, <<"string", "int">> >>,
       << <<"int">>, <<"double">> >> >>

FuncSets == DOMAIN OverloadTable

Candidates(c) == OverloadTable[c.set]

ArgTuples == UNION { [1 .. n -> JsKinds] : n \in 0 .. MaxArgs }

\* Local<Value>::asString yields a string only for a script string and
\* raises an Exception for every other kind
asStringOk(v) == v = "string"

\* TypeConverter<T>::toCpp succeeds: a string parameter goes through
\* asString, a number parameter takes a value for which isNumber holds
toCppOk(param, v) ==
    IF param = "string" THEN asStringOk(v)
    ELSE v = "number"

NoOutcome == [kind |-> "none", by |-> 0, msg |-> ""]

NoCall == [stage |-> "idle", set |-> 1, args |-> << >>, throws |-> {}, i |-> 0, j |-> 0,
           conv |-> << >>, inv |-> << >>, outcome |-> NoOutcome]

Raise(c, msg) == [c EXCEPT !.stage = "done", !.outcome = [kind |-> "error", by |-> c.i, msg |-> msg]]

\* a catch clause that gives up at the first candidate that raises
dispatchCatchFirstOnly(c) == Raise(c, "no overload found")

\* the catch clause of dispatchOverloadImpl for candidate c.i
dispatchCatch(c) ==
    IF c.i = Len(Candidates(c))
    THEN Raise(c, "no overload found")
    ELSE [c EXCEPT !.i = @ + 1, !.j = 0, !.stage = "enter"]

\* candidate c.i raised a v8kit Exception
CandidateRaised(c, msg) ==
    IF Len(Candidates(c)) = 1 THEN Raise(c, msg) ELSE dispatchCatch(c)

\* a count check that lets a call with too many arguments through
CountMismatchTooFewOnly(c) == Len(c.args) < Len(Candidates(c)[c.i])

\* args.length() != Count
CountMismatch(c) == Len(c.args) # Len(Candidates(c)[c.i])

CallBegin(f, args, throws) ==
    /\ call.stage \in {"idle", "done"}
    /\ call' = [stage |-> "enter", set |-> f, args |-> args, throws |-> throws, i |-> 1, j |-> 0,
                conv |-> [k \in 1 .. Len(OverloadTable[f]) |-> 0],
                inv |-> [k \in 1 .. Len(OverloadTable[f]) |-> 0],
                outcome |-> NoOutcome]
    /\ UNCHANGED << engineVars, heapVars, bindingVars, runtimeVars, castFrame, toJsCall >>

\* entry of the callback made by wrapFunction: the argument count check
EnterCandidate ==
    /\ call.stage = "enter"
    /\ call' = IF CountMismatch(call)
               THEN CandidateRaised(call, "argument count mismatch")
               ELSE IF Len(call.args) = 0
               THEN [call EXCEPT !.stage = "invoke"]
               ELSE [call EXCEPT !.stage = "convert", !.j = 1]
    /\ UNCHANGED << engineVars, heapVars, bindingVars, runtimeVars, castFrame, toJsCall >>

\* ConvertArgsToTuple: toCpp of argument call.j (left to right)
ConvertArg ==
    /\ call.stage = "convert"
    /\ LET c == [call EXCEPT !.conv[call.i] = @ + 1]
           param == Candidates(call)[call.i][call.j]
       IN  call' = IF ~toCppOk(param, call.args[call.j])
                   THEN CandidateRaised(c, "cannot convert argument")
                   ELSE IF call.j = Len(call.args)
                   THEN [c EXCEPT !.stage = "invoke"]
                   ELSE [c EXCEPT !.j = @ + 1]
    /\ UNCHANGED << engineVars, heapVars, bindingVars, runtimeVars, castFrame, toJsCall >>

\* std::apply(f, ...): the native body runs and returns or raises
InvokeNative ==
    /\ call.stage = "invoke"
    /\ LET c == [call EXCEPT !.inv[call.i] = @ + 1]
       IN  call' = IF call.i \in call.throws
                   THEN CandidateRaised(c, "native error")
                   ELSE [c EXCEPT !.stage = "done",
                                  !.outcome = [kind |-> "value", by |-> call.i, msg |-> ""]]
    /\ UNCHANGED << engineVars, heapVars, bindingVars, runtimeVars, castFrame, toJsCall >>

\* ------------------------------------------------------------------------
\* Return value policy (ReturnValuePolicy.h) and GenericTypeConverter::toJs
\* ------------------------------------------------------------------------
Policies == {"Automatic", "Copy", "Move", "Reference", "TakeOwnership", "ReferenceInternal"}

\* the static shape U of the value handed to toJs
Shapes == {"pointer", "lvalue_ref", "rvalue_ref", "value"}

\* a resolver that borrows raw pointers instead of owning them
handleAutomaticPolicyPointerReference(U, policy) ==
    IF policy = "Automatic"
    THEN IF U = "pointer" THEN "Reference"
         ELSE IF U = "lvalue_ref" THEN "Copy"
         ELSE IF U = "rvalue_ref" THEN "Move"
         ELSE policy
    ELSE policy

\* GenericTypeConverter::handleAutomaticPolicy<U>(policy)
handleAutomaticPolicy(U, policy) ==
    IF policy = "Automatic"
    THEN IF U = "pointer" THEN "TakeOwnership"
         ELSE IF U = "lvalue_ref" THEN "Copy"
         ELSE IF U = "rvalue_ref" THEN "Move"
         ELSE policy
    ELSE policy

\* a slicing factory: a Move of a downcasted value move-constructs the
\* declared element type instead of calling moveCloneCtor_
createCopyOrMoveSlices(policy, downcasted, hasClone, constructible, upcastOk) ==
    IF downcasted /\ policy = "Copy"
    THEN IF ~hasClone THEN "error_no_clone_constructor"
         ELSE IF ~upcastOk THEN "error_upcast_failed"
         ELSE "owned_clone"
    ELSE IF constructible THEN "owned_new"
         ELSE "error_not_constructible"

\* factory::createNativeInstance, case kCopy and case kMove. downcasted:
\* resolved.is_downcasted; hasClone: the resolved meta has the
\* copyCloneCtor_ (Copy) or moveCloneCtor_ (Move); constructible: the
\* element type is copy (move) constructible; upcastOk: castTo of the clone
\* to the element type found the base.
createCopyOrMove(policy, downcasted, hasClone, constructible, upcastOk) ==
    IF downcasted
    THEN IF ~hasClone THEN "error_no_clone_constructor"
         ELSE IF ~upcastOk THEN "error_upcast_failed"
         ELSE "owned_clone"
    ELSE IF constructible THEN "owned_new"
         ELSE "error_not_constructible"

\* a factory that owns the address of whatever it is given
createTakeOwnershipOfAddress(shape) == "owned_pointer"

\* factory::createNativeInstance, case kTakeOwnership
createTakeOwnership(shape) ==
    IF shape = "pointer" THEN "owned_pointer" ELSE "error_take_ownership"

\* factory::createNativeInstance: the holder made for the value, or the
\* error raised
createNativeInstance(shape, policy, downcasted, hasClone, constructible, upcastOk) ==
    IF policy \in {"Copy", "Move"}
    THEN createCopyOrMove(policy, downcasted, hasClone, constructible, upcastOk)
    ELSE IF policy = "TakeOwnership"
    THEN createTakeOwnership(shape)
    ELSE IF policy \in {"Reference", "ReferenceInternal"}
    THEN "borrowed"
    ELSE "error_unknown_policy"

\* the value handed to toJs as parent: an empty handle or a value that is
\* no object, an object without internal fields, an object made from a
\* class template
ParentKinds == {"empty", "plain_object", "native_object"}

\* the holders createNativeInstance makes
HolderOutcomes == {"owned_clone", "owned_new", "owned_pointer", "borrowed"}

NoToJs == [stage |-> "idle", shape |-> "value", declared |-> "Automatic", isNull |-> FALSE,
           downcasted |-> FALSE, hasClone |-> FALSE, constructible |-> FALSE, upcastOk |-> FALSE,
           parent |-> "empty", policy |-> "Automatic", outcome |-> "none",
           instances |-> 0, objects |-> 0, edge |-> FALSE]

ToJsCall(shape, declared, isNull, downcasted, hasClone, constructible, upcastOk, parent) ==
    /\ toJsCall.stage \in {"idle", "done"}
    /\ isNull => shape = "pointer"
    /\ ~upcastOk => (downcasted /\ hasClone)
    /\ toJsCall' = [stage |-> "called", shape |-> shape, declared |-> declared, isNull |-> isNull,
                    downcasted |-> downcasted, hasClone |-> hasClone,
                    constructible |-> constructible, upcastOk |-> upcastOk,
                    parent |-> parent, policy |-> declared, outcome |-> "none",
                    instances |-> 0, objects |-> 0, edge |-> FALSE]
    /\ UNCHANGED << engineVars, heapVars, bindingVars, runtimeVars, castFrame, call >>

\* policy = handleAutomaticPolicy<T>(policy)
ToJsResolvePolicy ==
    /\ toJsCall.stage = "called"
    /\ toJsCall' = [toJsCall EXCEPT !.stage = "resolved",
                                    !.policy = handleAutomaticPolicy(toJsCall.shape, toJsCall.declared)]
    /\ UNCHANGED << engineVars, heapVars, bindingVars, runtimeVars, castFrame, call >>

\* the null check on a raw pointer, then createNativeInstance: a holder is
\* made, or the call ends with null or with the error raised
ToJsCreate ==
    /\ toJsCall.stage = "resolved"
    /\ LET res == IF toJsCall.shape = "pointer" /\ toJsCall.isNull
                  THEN "null"
                  ELSE createNativeInstance(toJsCall.shape, toJsCall.policy,
                                            toJsCall.downcasted, toJsCall.hasClone,
                                            toJsCall.constructible, toJsCall.upcastOk)
       IN  toJsCall' = [toJsCall EXCEPT
                          !.stage = IF res \in HolderOutcomes THEN "created" ELSE "done",
                          !.outcome = res,
                          !.instances = IF res \in HolderOutcomes THEN 1 ELSE 0]
    /\ UNCHANGED << engineVars, heapVars, bindingVars, runtimeVars, castFrame, call >>

\* Engine::trySetReferenceInternal: both objects need the internal fields
\* of a class instance; the child then refers to the parent
trySetReferenceInternal(parent) == parent = "native_object"

\* engine.newInstance makes the managed object; under ReferenceInternal the
\* parent must be an object and must take the edge
ToJsNewInstance ==
    /\ toJsCall.stage = "created"
    /\ toJsCall' = [toJsCall EXCEPT
                      !.stage = "done",
                      !.objects = 1,
                      !.outcome = IF toJsCall.policy # "ReferenceInternal" THEN @
                                  ELSE IF toJsCall.parent = "empty"
                                  THEN "error_parent_not_object"
                                  ELSE IF ~trySetReferenceInternal(toJsCall.parent)
                                  THEN "error_set_reference_internal"
                                  ELSE @,
                      !.edge = /\ toJsCall.policy = "ReferenceInternal"
                               /\ toJsCall.parent # "empty"
                               /\ trySetReferenceInternal(toJsCall.parent)]
    /\ UNCHANGED << engineVars, heapVars, bindingVars, runtimeVars, castFrame, call >>

\* ------------------------------------------------------------------------
\* Managed objects made by toJs for native objects, and their use
\* ------------------------------------------------------------------------

\* the class of the native objects handed to toJs
HeapMetas == {1}

HeapPolicies == {"Copy", "Move", "TakeOwnership", "Reference", "ReferenceInternal"}

\* a keep-alive that leaves the internal field empty
ParentFieldUnset(parent) == 0

\* v8Child->SetInternalField(ParentClassThisRef, v8Parent)
ParentField(parent) == parent

\* toJs(value, policy, parent) for native object n, the managed object
\* getting record r: createNativeInstance makes the holder, engine.newInstance
\* the managed object and its payload (addManagedResource), and under
\* ReferenceInternal the parent is checked and linked. parent = 0: the
\* parent handed in is empty or not an instance of a bound class. The
\* script gets the object unless toJs raised.
HeapToJs(r, n, policy, isConst, parent) ==
    /\ ~isDestroying_
    /\ weak[r] = "none"
    /\ holder[r].state = "none"
    /\ destroyed[n] = 0
    /\ policy = "TakeOwnership" => \A q \in Res : ~(holder[q].owned /\ holder[q].native = n)
    /\ parent # 0 => (policy = "ReferenceInternal" /\ parent # r /\ Reachable(parent))
    /\ \E m \in HeapMetas :
          /\ m \in DOMAIN classConstructors_
          /\ ~classConstructors_[m].throws
          /\ objClass' = [objClass EXCEPT ![r] = m]
    /\ LET made == createNativeInstance(IF policy = "TakeOwnership" THEN "pointer" ELSE "lvalue_ref",
                                        policy, FALSE, FALSE, TRUE, TRUE)
           linked == policy = "ReferenceInternal" => parent # 0
       IN  /\ holder' = [holder EXCEPT ![r] =
                            [state |-> "held",
                             owned |-> made # "borrowed",
                             native |-> IF made = "owned_new" THEN CloneOf(r) ELSE n,
                             const |-> isConst,
                             parent |-> IF policy = "ReferenceInternal" THEN parent ELSE 0]]
           /\ addManagedResourceBody(r)
           /\ parentRef' = [parentRef EXCEPT ![r] =
                               IF policy = "ReferenceInternal" THEN ParentField(parent) ELSE 0]
           /\ rooted' = [rooted EXCEPT ![r] = linked]
           /\ lastOp' = [op |-> "toJs", result |-> IF linked THEN "ok" ELSE "error_parent"]
    /\ UNCHANGED << registeredClasses_, classConstructors_, typeMapping_, isDestroying_,
                    deleterCalls, freeCount, destroyed, lastUse >>
    /\ UNCHANGED << adapterVars, bindingVars, runtimeVars >>

\* the script drops its reference to the managed object
DropReference(r) ==
    /\ ~isDestroying_
    /\ rooted[r]
    /\ rooted' = [rooted EXCEPT ![r] = FALSE]
    /\ UNCHANGED engineVars
    /\ UNCHANGED << holder, parentRef, destroyed, lastUse >>
    /\ UNCHANGED << adapterVars, bindingVars, runtimeVars >>

\* a callback running on the managed object of record r
InUse(r) ==
    /\ ~isDestroying_
    /\ weak[r] = "weak"
    /\ Reachable(r)
    /\ holder[r].state # "none"

\* InstancePayload::finalize
Finalize(r) ==
    /\ InUse(r)
    /\ holder' = ReleasedHolders({r})
    /\ destroyed' = DestructorRuns({r})
    /\ UNCHANGED engineVars
    /\ UNCHANGED << rooted, parentRef, lastUse >>
    /\ UNCHANGED << adapterVars, bindingVars, runtimeVars >>

\* an unwrap that hands out the pointer whatever the element's constness
holderUnwrapIgnoresConst(h, constT) == "pointer"

\* NativeInstance::unwrap<T>; constT: T is const
holderUnwrap(h, constT) ==
    IF h.const /\ ~constT THEN "error_const" ELSE "pointer"

\* InstancePayload::unwrap<T>
payloadUnwrap(h, constT) ==
    IF h.state = "held" THEN holderUnwrap(h, constT) ELSE "null"

\* what calling a member function through a null NativeInstance* can do
NullHolderOutcomes == {"crash", "wild_pointer"}

\* GenericTypeConverter::toCpp: payload->getHolder()->unwrap<T>(), where
\* getHolder() is null once the payload was finalized
toCppInstance(h, constT, ub) ==
    IF h.state = "held" THEN holderUnwrap(h, constT) ELSE ub

\* an InstanceMethodCallback in the style of SimpleClass::getIdScript
methodCallback(h, constT) ==
    IF payloadUnwrap(h, constT) = "null" THEN "error_destroyed" ELSE payloadUnwrap(h, constT)

UseKinds == {"unwrap", "method", "toCpp"}

\* a use of the payload of record r from a callback: kind says how the
\* pointer is asked for, constT whether a const T is asked for (for a
\* method: whether the method is const); a non-const method writes to the
\* object it got
Use(r, kind, constT, ub) ==
    /\ InUse(r)
    /\ ub = "crash" \/ (kind = "toCpp" /\ holder[r].state # "held")
    /\ LET h == holder[r]
           res == IF kind = "unwrap" THEN payloadUnwrap(h, constT)
                  ELSE IF kind = "method" THEN methodCallback(h, constT)
                  ELSE toCppInstance(h, constT, ub)
       IN  lastUse' = [kind |-> kind, finalized |-> h.state # "held", result |-> res,
                       wrote |-> kind = "method" /\ res = "pointer" /\ ~constT]
    /\ UNCHANGED engineVars
    /\ UNCHANGED << holder, rooted, parentRef, destroyed >>
    /\ UNCHANGED << adapterVars, bindingVars, runtimeVars >>

\* ------------------------------------------------------------------------
\* Type converters for primitive values, optional and vector
\* (TypeConverter.inl)
\* ------------------------------------------------------------------------

\* A native type is a sequence of wrappers ending in a leaf:
\* << "vector", "optional", "int" >> is std::vector<std::optional<int>>.
Leaves == {"bool", "int", "string"}

Wrappers == {"vector", "optional"}

\* the 64-bit integers, converted to BigInt
Wide == {"int64", "uint64"}

RECURSIVE WrapperSeqs(_)
WrapperSeqs(n) ==
    IF n = 0 THEN { << >> }
    ELSE WrapperSeqs(n - 1) \cup { << w >> \o q : w \in Wrappers, q \in WrapperSeqs(n - 1) }

NestedTypes == { q \o << l >> : q \in WrapperSeqs(MaxNest), l \in Leaves }

WideTypes == { << l >> : l \in Wide }

\* 32-bit int values, each exactly representable as a script Number
IntValues == {-2147483647 - 1, 0, 2147483647}

StringValues == {"", "a"}

\* A 64-bit integer is its bit pattern, four 16-bit limbs, the least
\* significant first: 0, 1, 1234567890, 2^63 - 1, 2^63 and 2^64 - 1
\* (as int64_t the last two are -2^63 and -1).
WideValues == { << 0, 0, 0, 0 >>, << 1, 0, 0, 0 >>, << 722, 18838, 0, 0 >>,
                << 65535, 65535, 65535, 32767 >>, << 0, 0, 0, 32768 >>,
                << 65535, 65535, 65535, 65535 >> }

\* std::optional<T>
Nullopt == [has |-> FALSE]

Engaged(v) == [has |-> TRUE, val |-> v]

LeafValues(l) ==
    CASE l = "bool" -> BOOLEAN
      [] l = "int" -> IntValues
      [] l = "string" -> StringValues
      [] OTHER -> WideValues

\* The native values of type T with exactly k nodes: a leaf, an optional
\* and a vector count one each, on top of what they contain.
RECURSIVE ValuesOfSize(_, _), SeqsOfSize(_, _)
ValuesOfSize(T, k) ==
    IF k < 1 THEN {}
    ELSE IF Len(T) = 1 THEN (IF k = 1 THEN LeafValues(T[1]) ELSE {})
    ELSE IF Head(T) = "optional"
         THEN (IF k = 1 THEN {Nullopt} ELSE {})
                  \cup { Engaged(v) : v \in ValuesOfSize(Tail(T), k - 1) }
         ELSE SeqsOfSize(Tail(T), k - 1)

\* the vectors of elements of type T whose elements have k nodes in all
SeqsOfSize(T, k) ==
    IF k = 0 THEN { << >> }
    ELSE UNION { { << v >> \o r : v \in ValuesOfSize(T, j), r \in SeqsOfSize(T, k - j) } :
                    j \in 1 .. k }

CppValues(T) == UNION { ValuesOfSize(T, k) : k \in 1 .. MaxSize }

\* the top bit of a 64-bit pattern: the sign of the int64_t it is read as
TopBit(x) == x[4] >= 32768

RECURSIVE AddCarry(_, _, _)
AddCarry(x, i, carry) ==
    IF i > Len(x) THEN x
    ELSE LET sum == x[i] + carry
         IN  AddCarry([x EXCEPT ![i] = sum % 65536], i + 1, sum \div 65536)

\* two's-complement negation modulo 2^64
Negate64(x) == AddCarry([i \in 1 .. Len(x) |-> 65535 - x[i]], 1, 1)

\* script values
JsNull == [kind |-> "null"]

\* Boolean::newBoolean
newBoolean(b) == [kind |-> "boolean", v |-> b]

\* Number::newNumber(int)
newNumber(i) == [kind |-> "number", v |-> i]

\* String::newString
newString(str) == [kind |-> "string", v |-> str]

\* BigInt::newBigInt(int64_t i): the argument is converted to int64_t, and
\* v8::BigInt::New makes the BigInt of that signed value (sign, magnitude)
newBigInt(x) ==
    [kind |-> "bigint", neg |-> TopBit(x), mag |-> IF TopBit(x) THEN Negate64(x) ELSE x]

\* BigInt::newBigIntUnsigned(uint64_t i)
newBigIntUnsigned(x) == [kind |-> "bigint", neg |-> FALSE, mag |-> x]

\* the lower 64 bits of a BigInt, as getInt64() and getUint64() return them
Low64(b) == IF b.neg THEN Negate64(b.mag) ELSE b.mag

\* what the converter gives for an empty optional when it gives a number
optionalEmptyIsZero == newNumber(0)

\* TypeConverter<std::optional<T>>::toJs for an empty optional
optionalEmpty == JsNull

\* value.isNullOrUndefined()
isNullOrUndefined(js) == js.kind \in {"null", "undefined"}

\* the result of a toCpp: a value, or the TypeError it raised
Ok(v) == [ok |-> TRUE, val |-> v]

TypeError == [ok |-> FALSE]

\* TypeConverter<T>::toJs
RECURSIVE toJs(_, _)
toJs(T, v) ==
    IF Len(T) = 1
    THEN CASE T[1] = "bool" -> newBoolean(v)
           [] T[1] = "int" -> newNumber(v)
           [] T[1] = "string" -> newString(v)
           [] OTHER -> newBigInt(v)
    ELSE IF Head(T) = "optional"
         THEN IF v.has THEN toJs(Tail(T), v.val) ELSE optionalEmpty
         ELSE [kind |-> "array", v |-> [i \in 1 .. Len(v) |-> toJs(Tail(T), v[i])]]

\* TypeConverter<T>::toCpp
RECURSIVE toCpp(_, _)
toCpp(T, js) ==
    IF Len(T) = 1
    THEN CASE T[1] = "bool" -> IF js.kind = "boolean" THEN Ok(js.v) ELSE TypeError
           [] T[1] = "int" -> IF js.kind = "number" THEN Ok(js.v) ELSE TypeError
           [] T[1] = "string" -> IF js.kind = "string" THEN Ok(js.v) ELSE TypeError
           [] OTHER -> IF js.kind = "bigint" THEN Ok(Low64(js)) ELSE TypeError
    ELSE IF Head(T) = "optional"
         THEN IF isNullOrUndefined(js) THEN Ok(Nullopt)
              ELSE LET r == toCpp(Tail(T), js)
                   IN  IF r.ok THEN Ok(Engaged(r.val)) ELSE TypeError
         ELSE IF js.kind # "array" THEN TypeError
              ELSE LET rs == [i \in 1 .. Len(js.v) |-> toCpp(Tail(T), js.v[i])]
                   IN  IF \A i \in 1 .. Len(rs) : rs[i].ok
                       THEN Ok([i \in 1 .. Len(rs) |-> rs[i].val])
                       ELSE TypeError

\* stage "cpp": the native value val of type type is about to be converted;
\* "js": js is toJs(val); "back": back is toCpp<type>(js)
NoConv == [type |-> << >>, val |-> FALSE, stage |-> "none", js |-> JsNull, back |-> TypeError]

ConvStart(T, v) ==
    /\ conv.stage = "none"
    /\ conv' = [type |-> T, val |-> v, stage |-> "cpp", js |-> JsNull, back |-> TypeError]
    /\ UNCHANGED << engineVars, adapterVars, heapVars, runtimeVars, builder, prop >>

ConvToJs ==
    /\ conv.stage = "cpp"
    /\ conv' = [conv EXCEPT !.stage = "js", !.js = toJs(conv.type, conv.val)]
    /\ UNCHANGED << engineVars, adapterVars, heapVars, runtimeVars, builder, prop >>

ConvToCpp ==
    /\ conv.stage = "js"
    /\ conv' = [conv EXCEPT !.stage = "back", !.back = toCpp(conv.type, conv.js)]
    /\ UNCHANGED << engineVars, adapterVars, heapVars, runtimeVars, builder, prop >>

\* ------------------------------------------------------------------------
\* Class names (MetaBuilder.h)
\* ------------------------------------------------------------------------

\* the characters of a class name: a dot and one that is not a dot
NameChars == {".", "a"}

ClassNames == UNION { [1 .. n -> NameChars] : n \in 0 .. MaxName }

\* stage "entry": the constructor was entered with name; "scan": the loop
\* is at character pos with prev_dot; "done": it returned (result "built")
\* or threw std::invalid_argument (result "invalid_argument", msg)
NoBuilder == [stage |-> "none", name |-> << >>, pos |-> 0, prev_dot |-> FALSE,
              result |-> "none", msg |-> ""]

\* a check of the ends that looks at the first character only
dotAtFront(name) == name[1] = "."

\* name.front() == '.' || name.back() == '.'
dotAtEnds(name) == name[1] = "." \/ name[Len(name)] = "."

BuilderThrow(msg) ==
    [builder EXCEPT !.stage = "done", !.result = "invalid_argument", !.msg = msg]

\* ClassMetaBuilder<T>::ClassMetaBuilder(std::string name)
ClassMetaBuilder(name) ==
    /\ builder.stage = "none"
    /\ builder' = [NoBuilder EXCEPT !.stage = "entry", !.name = name]
    /\ UNCHANGED << engineVars, adapterVars, heapVars, runtimeVars, conv, prop >>

\* the checks before the loop
BuilderCheckEnds ==
    /\ builder.stage = "entry"
    /\ builder' = IF Len(builder.name) = 0
                    THEN BuilderThrow("class name cannot be empty")
                  ELSE IF dotAtEnds(builder.name)
                    THEN BuilderThrow("class name cannot start or end with '.'")
                  ELSE [builder EXCEPT !.stage = "scan", !.pos = 1]
    /\ UNCHANGED << engineVars, adapterVars, heapVars, runtimeVars, conv, prop >>

\* one iteration of for (char c : name_), or the end of the constructor
BuilderScan ==
    /\ builder.stage = "scan"
    /\ builder' = IF builder.pos > Len(builder.name)
                    THEN [builder EXCEPT !.stage = "done", !.result = "built"]
                  ELSE IF builder.name[builder.pos] = "."
                    THEN IF builder.prev_dot
                           THEN BuilderThrow("class name cannot contain consecutive '.'")
                         ELSE [builder EXCEPT !.prev_dot = TRUE, !.pos = @ + 1]
                  ELSE [builder EXCEPT !.prev_dot = FALSE, !.pos = @ + 1]
    /\ UNCHANGED << engineVars, adapterVars, heapVars, runtimeVars, conv, prop >>

\* ------------------------------------------------------------------------
\* Properties of bound classes and script access to them
\* (Engine::buildStaticMembers, Engine::buildInstanceMembers)
\* ------------------------------------------------------------------------

PropKinds == {"static", "instance"}

\* the values of the native variable behind a property
PropValues == {0, 1, 2}

\* no access yet. op: "write" or "read"; assigned: the value a write
\* assigns; strict: the writing script code is strict-mode code; error: what the access raised; before: the native
\* value when the last write began; afterReadOnlyWrite: a read that
\* directly follows a write to a property without setter; got: the value a
\* read returned
NoAccess == [op |-> "none", assigned |-> 0, strict |-> FALSE, error |-> "none", before |-> 0,
             afterReadOnlyWrite |-> FALSE, got |-> 0]

NoProp == [kind |-> "none", hasSetter |-> FALSE, setter |-> "absent", value |-> 0,
           last |-> NoAccess]

\* the setter the engine installs on the script side for a property:
\* buildStaticMembers forwards to setter_ or installs a callback that
\* raises TypeError; buildInstanceMembers makes a setter function only if
\* setter_ is set and otherwise hands SetAccessorProperty an empty handle
installedSetter(kind, hasSetter) ==
    IF hasSetter THEN "forwarding"
    ELSE IF kind = "static" THEN "throwing"
    ELSE "absent"

\* buildStaticMembers / buildInstanceMembers for one property whose native
\* variable holds v
RegisterProperty(kind, hasSetter, v) ==
    /\ prop.kind = "none"
    /\ prop' = [kind |-> kind, hasSetter |-> hasSetter,
                setter |-> installedSetter(kind, hasSetter), value |-> v, last |-> NoAccess]
    /\ UNCHANGED << engineVars, adapterVars, heapVars, runtimeVars, conv, builder >>

\* the script assigns v to the property. An accessor property without a
\* setter function ignores the assignment in sloppy-mode code and raises
\* TypeError in strict-mode code.
ScriptWrite(v, strict) ==
    /\ prop.kind # "none"
    /\ LET error == CASE prop.setter = "forwarding" -> "none"
                      [] prop.setter = "throwing" -> "TypeError"
                      [] OTHER -> IF strict THEN "TypeError" ELSE "none"
       IN  prop' = [prop EXCEPT
                       !.value = IF prop.setter = "forwarding" THEN v ELSE @,
                       !.last = [op |-> "write", assigned |-> v, strict |-> strict, error |-> error,
                                 before |-> prop.value, afterReadOnlyWrite |-> FALSE,
                                 got |-> 0]]
    /\ UNCHANGED << engineVars, adapterVars, heapVars, runtimeVars, conv, builder >>

\* the script reads the property: the getter callback returns the native value
ScriptRead ==
    /\ prop.kind # "none"
    /\ prop' = [prop EXCEPT
                   !.last = [op |-> "read", assigned |-> 0, strict |-> FALSE, error |-> "none",
                             before |-> prop.last.before,
                             afterReadOnlyWrite |-> prop.last.op = "write" /\ ~prop.hasSetter,
                             got |-> prop.value]]
    /\ UNCHANGED << engineVars, adapterVars, heapVars, runtimeVars, conv, builder >>

\* ------------------------------------------------------------------------
\* Polymorphic type resolution (TypeConverter.h: PolymorphicTypeHook,
\* resolveCastSource)
\* ------------------------------------------------------------------------

\* the native classes whose objects are handed to toJs: Animal, Dog : Animal
\* and Puppy : Dog, each named by the meta that describes it
NativeClasses == {1, 2, 3}

\* the classes from c up its base chain, c first
RECURSIVE ClassChain(_)
ClassChain(c) == IF c = NoMeta THEN << >> ELSE << c >> \o ClassChain(MetaTable[c].base)

\* the place of class t on the base chain of class c (0: not on it)
ChainIndex(c, t) ==
    LET path == ClassChain(c)
        hits == { i \in 1 .. Len(path) : path[i] = t }
    IN  IF hits = {} THEN 0 ELSE CHOOSE i \in hits : TRUE

RECURSIVE OffsetsUpTo(_, _)
OffsetsUpTo(path, n) == IF n = 0 THEN 0 ELSE OffsetsUpTo(path, n - 1) + MetaTable[path[n]].offset

\* the address of the subobject of class t in an object of class c whose
\* most-derived address is d
SubobjectAt(c, d, t) == d + OffsetsUpTo(ClassChain(c), ChainIndex(c, t) - 1)

\* PolymorphicTypeHook<T>::get for a non-null T* pointing into an object of
\* class R at most-derived address d: the type it reports and the address
\* it returns. A non-polymorphic T gives typeid(T) and the pointer itself.
hookType(T, R, poly) == IF poly THEN MetaTable[R].typeId ELSE MetaTable[T].typeId

hookPtr(T, R, d, poly) == IF poly THEN d ELSE SubobjectAt(R, d, T)

\* a fallback that looks the runtime type up again
staticIdxOfRuntime(T, R) == MetaTable[R].typeId

\* std::type_index staticIdx(typeid(T))
staticIdx(T, R) == MetaTable[T].typeId

\* a resolver that always hands out the most-derived address
resolvedPtrMostDerived(hit, dynamicPtr, value) == dynamicPtr

\* ResolvedCastSource::ptr: dynamicPtr on a hit, the caller's pointer otherwise
resolvedPtr(hit, dynamicPtr, value) == IF hit THEN dynamicPtr ELSE value

\* resolveCastSource(T* value), value pointing to the T subobject of an
\* object of class R at most-derived address d
resolveCastSource(T, R, d, poly) ==
    LET value == SubobjectAt(R, d, T)
        dynamicMeta == getClassDefine(hookType(T, R, poly))
        staticMeta == getClassDefine(staticIdx(T, R))
        hit == dynamicMeta # NoMeta
    IN  IF ~hit /\ staticMeta = NoMeta
        THEN [result |-> "not_registered", ptr |-> NullPtr, meta |-> NoMeta,
              is_downcasted |-> FALSE]
        ELSE [result |-> "ok",
              ptr |-> resolvedPtr(hit, hookPtr(T, R, d, poly), value),
              meta |-> IF hit THEN dynamicMeta ELSE staticMeta,
              is_downcasted |-> hit]

\* made: what createNativeInstance did; element: ElementType; raw: the
\* pointer in value_; meta: meta_; heldClass, heldBase: the class and
\* most-derived address of the object value_ points into; sourceBase: the
\* most-derived address of the object handed to toJs
NoHolderCast == [made |-> "none", policy |-> "none", layout |-> "none", hasClone |-> FALSE,
                 constructible |-> FALSE, element |-> NoMeta, raw |-> NullPtr, meta |-> NoMeta,
                 most_derived_ptr |-> NullPtr, heldClass |-> NoMeta, heldBase |-> NullPtr,
                 sourceBase |-> NullPtr, target |-> 0, result |-> NullPtr]

\* mapping: typeMapping_ at the call
NoResolved == [T |-> NoMeta, R |-> NoMeta, base |-> NullPtr, value |-> NullPtr, poly |-> FALSE,
               mapping |-> EmptyMap,
               out |-> [result |-> "none", ptr |-> NullPtr, meta |-> NoMeta,
                        is_downcasted |-> FALSE]]

\* a call of resolveCastSource from toJs; T is R or one of its bases
ResolveCastSource(T, R, d, poly) ==
    /\ ~isDestroying_
    /\ ChainIndex(R, T) # 0
    /\ resolved' = [T |-> T, R |-> R, base |-> d, value |-> SubobjectAt(R, d, T), poly |-> poly,
                    mapping |-> typeMapping_,
                    out |-> resolveCastSource(T, R, d, poly)]
    /\ holderCast' = NoHolderCast
    /\ UNCHANGED << engineVars, adapterVars, heapVars, bindingVars >>
    /\ UNCHANGED << ctorCall, finalizer, engines, scopes >>

\* ------------------------------------------------------------------------
\* Holders made from a resolved source, and NativeInstanceImpl::cast
\* ------------------------------------------------------------------------

\* ClassMeta::castTo(ptr, targetId) on meta m, run to its result
RECURSIVE castToRun(_)
castToRun(f) == IF f.stage = "done" THEN f.result ELSE castToRun(castToStep(f))

castTo(m, ptr, target) ==
    castToRun([stage |-> "running", meta |-> m, ptr |-> ptr, target |-> target, steps |-> 0,
               result |-> NullPtr, from |-> m, arg |-> ptr])

\* the two NativeInstanceImpl layouts: with most_derived_ptr_ (cast starts
\* the chain there) and without it (cast starts the chain at the raw pointer)
HolderLayouts == {"most_derived_ptr", "raw_ptr"}

\* where a Copy or Move puts the new object made from the one at d
CloneAt(d) == d + 16

\* NativeInstanceImpl::cast(target_type) on holder h
cast(h, target) ==
    IF h.layout = "raw_ptr" /\ h.raw = NullPtr THEN NullPtr
    ELSE IF target = MetaTable[h.element].typeId THEN h.raw
    ELSE IF h.meta = NoMeta THEN NullPtr
    ELSE castTo(h.meta, IF h.layout = "most_derived_ptr" THEN h.most_derived_ptr ELSE h.raw,
                target)

\* createNativeInstance(value, policy, resolved) for the source resolved
\* last, followed by cast(target) on the holder it made
CreateAndCast(policy, layout, hasClone, constructible, target) ==
    /\ resolved.out.result = "ok"
    /\ holderCast.made = "none"
    /\ LET T == resolved.T
           out == resolved.out
           made == createNativeInstance(IF policy = "TakeOwnership" THEN "pointer" ELSE "lvalue_ref",
                                        policy, out.is_downcasted, hasClone, constructible,
                                        TRUE)
           \* the class meta's clone hook copies: the one meta describes
           clonedClass == CHOOSE c \in NativeClasses :
                              MetaTable[c].typeId = MetaTable[out.meta].typeId
           cloned == CloneAt(out.ptr)
           h == IF made = "owned_clone"
                  THEN [raw |-> castTo(out.meta, cloned, MetaTable[T].typeId),
                        heldClass |-> clonedClass, heldBase |-> cloned]
                ELSE IF made = "owned_new"
                  THEN [raw |-> CloneAt(resolved.value), heldClass |-> T,
                        heldBase |-> CloneAt(resolved.value)]
                ELSE [raw |-> resolved.value, heldClass |-> resolved.R,
                      heldBase |-> resolved.base]
           holderRec == [made |-> made, policy |-> policy, layout |-> layout,
                         hasClone |-> hasClone, constructible |-> constructible,
                         element |-> T, raw |-> h.raw, meta |-> out.meta,
                         most_derived_ptr |-> out.ptr, heldClass |-> h.heldClass,
                         heldBase |-> h.heldBase, sourceBase |-> resolved.base,
                         target |-> target, result |-> NullPtr]
       IN  holderCast' =
              IF made \in HolderOutcomes
              THEN [holderRec EXCEPT !.result = cast(holderRec, target)]
              ELSE [NoHolderCast EXCEPT !.made = made, !.policy = policy, !.layout = layout,
                                        !.hasClone = hasClone, !.constructible = constructible,
                                        !.element = T, !.meta = out.meta]
    /\ UNCHANGED << engineVars, adapterVars, heapVars, bindingVars >>
    /\ UNCHANGED << ctorCall, resolved, finalizer, engines, scopes >>

\* ------------------------------------------------------------------------
\* EngineScope (EngineScope.cc): a thread_local pointer gCurrentScope_ to the
\* innermost scope of the thread, each scope keeping the one it replaced in
\* prev_.  Scopes are stack objects (no new, no copy, no move), so a thread
\* destroys them in the reverse of the order it constructed them: live[t]
\* is the thread's scopes in construction order and a scope is named by its
\* position in it.  Each scope holds a v8::Locker on its engine's isolate.
\* ------------------------------------------------------------------------
Threads == {1, 2}

ScopeEngines == {1, 2}

\* the engine whose lifetime manager the threads below work on
ManagedRuntime == CHOOSE e \in ScopeEngines : \A o \in ScopeEngines : e <= o

IdleThread == [pc |-> "idle", r |-> NullPtr, runtime |-> NullPtr]

NoFinalizer == [t \in Threads |-> IdleThread]

NoChecked == [thread |-> NullPtr, result |-> "none", engine |-> NullPtr, live |-> 0]

NoScopes == [live           |-> [t \in Threads |-> << >>],
             gCurrentScope_ |-> [t \in Threads |-> NullPtr],
             checked        |-> NoChecked]

\* the threads holding a v8::Locker on engine e's isolate: through a live
\* EngineScope, or through the locker of a weak callback in its first pass
LockerHolders(e) ==
    { t \in Threads : \E i \in DOMAIN scopes.live[t] : scopes.live[t][i].engine_ = e }
    \cup { t \in Threads : finalizer[t].pc = "first_pass" /\ finalizer[t].runtime = e }

\* v8::Locker's constructor returns once no other thread holds the isolate
\* (it nests on the thread that already holds it)
locker_(t, e) == LockerHolders(e) \subseteq {t}

currentEngine(t) ==
    IF scopes.gCurrentScope_[t] # NullPtr
    THEN scopes.live[t][scopes.gCurrentScope_[t]].engine_
    ELSE NullPtr

ensureEngine(engine) == IF engine = NullPtr THEN "logic_error" ELSE "ok"

\* EngineScope::EngineScope(Engine*)
EnterScope(t, e) ==
    /\ Len(scopes.live[t]) < MaxScopes
    /\ finalizer[t].pc = "idle"
    /\ locker_(t, e)
    /\ scopes' = [scopes EXCEPT
                    !.live[t] = Append(@, [engine_ |-> e, prev_ |-> scopes.gCurrentScope_[t]]),
                    !.gCurrentScope_[t] = Len(scopes.live[t]) + 1]
    /\ UNCHANGED << engineVars, adapterVars, heapVars, bindingVars >>
    /\ UNCHANGED << ctorCall, resolved, holderCast, finalizer, engines >>

\* a destructor that forgets the enclosing scope
scopeExitToNull(s) == NullPtr

\* EngineScope::~EngineScope: gCurrentScope_ = prev_
scopeExit(s) == s.prev_

LeaveScope(t) ==
    /\ Len(scopes.live[t]) > 0
    /\ finalizer[t].pc = "idle"
    /\ LET n == Len(scopes.live[t])
       IN  scopes' = [scopes EXCEPT
                        !.live[t] = SubSeq(@, 1, n - 1),
                        !.gCurrentScope_[t] = scopeExit(scopes.live[t][n])]
    /\ UNCHANGED << engineVars, adapterVars, heapVars, bindingVars >>
    /\ UNCHANGED << ctorCall, resolved, holderCast, finalizer, engines >>

\* EngineScope::currentEngineChecked
CurrentEngineChecked(t) ==
    /\ finalizer[t].pc = "idle"
    /\ scopes' = [scopes EXCEPT
                    !.checked = [thread |-> t,
                                 result |-> ensureEngine(currentEngine(t)),
                                 engine |-> currentEngine(t),
                                 live   |-> Len(scopes.live[t])]]
    /\ UNCHANGED << engineVars, adapterVars, heapVars, bindingVars >>
    /\ UNCHANGED << ctorCall, resolved, holderCast, finalizer, engines >>

\* ------------------------------------------------------------------------
\* The lifetime manager under threads.  addManagedResource runs on a thread
\* executing script inside an EngineScope of the engine; ~Engine opens an
\* EngineScope of its own; the weak callback runs on whichever thread the
\* collector uses and takes a v8::Locker on managed->runtime->isolate_
\* before it touches managedResources_.  finalizer[t].pc tells where
\* thread t stands: "emplace" and "teardown" inside the script-side
\* mutations, "first_pass" inside the weak callback's locked block.
\* ------------------------------------------------------------------------

\* the constructor callback reaches addManagedResource
ThreadAddEnter(t, r) ==
    /\ finalizer[t].pc = "idle"
    /\ currentEngine(t) = ManagedRuntime
    /\ ~isDestroying_
    /\ weak[r] = "none"
    /\ finalizer' = [finalizer EXCEPT ![t] = [pc |-> "emplace", r |-> r, runtime |-> ManagedRuntime]]
    /\ UNCHANGED << engineVars, adapterVars, heapVars, bindingVars >>
    /\ UNCHANGED << ctorCall, resolved, holderCast, engines, scopes >>

\* weak.SetWeak(...) and managedResources_.emplace(managed.release(), std::move(weak))
ThreadAddEmplace(t) ==
    /\ finalizer[t].pc = "emplace"
    /\ addManagedResourceBody(finalizer[t].r)
    /\ lastOp' = [op |-> "addManagedResource", result |-> "ok"]
    /\ finalizer' = [finalizer EXCEPT ![t] = IdleThread]
    /\ UNCHANGED << adapterVars, heapVars, bindingVars >>
    /\ UNCHANGED << registeredClasses_, classConstructors_, typeMapping_, isDestroying_,
                    deleterCalls, freeCount, objClass >>
    /\ UNCHANGED << ctorCall, resolved, holderCast, engines, scopes >>

\* a weak callback that touches the registry without taking the isolate's lock
weakCallbackNoLocker(g) == TRUE

\* v8::Locker locker(runtime->isolate_) in the first pass
weakCallbackLocker(g) == locker_(g, ManagedRuntime)

\* auto runtime = managed->runtime: the engine comes from the record, not
\* from the calling thread's EngineScope
weakCallbackRuntime(g) == ManagedRuntime

WeakCallbackEnter(g, r) ==
    /\ finalizer[g].pc = "idle"
    /\ weak[r] = "weak"
    /\ ~Reachable(r)
    /\ \A t \in Threads : ~(finalizer[t].pc = "first_pass" /\ finalizer[t].r = r)
    /\ weakCallbackLocker(g)
    /\ finalizer' = [finalizer EXCEPT
                       ![g] = [pc |-> "first_pass", r |-> r, runtime |-> weakCallbackRuntime(g)]]
    /\ UNCHANGED << engineVars, adapterVars, heapVars, bindingVars >>
    /\ UNCHANGED << ctorCall, resolved, holderCast, engines, scopes >>

\* find, assert, erase, SetSecondPassCallback; the locker is released at the
\* end of the block
WeakCallbackErase(g) ==
    /\ finalizer[g].pc = "first_pass"
    /\ finalizer[g].r \in managedResources_
    /\ managedResources_' = FirstPassErase(finalizer[g].r)
    /\ weak' = [weak EXCEPT ![finalizer[g].r] = "pending"]
    /\ lastOp' = [op |-> "firstPass", result |-> "ok"]
    /\ finalizer' = [finalizer EXCEPT ![g] = IdleThread]
    /\ UNCHANGED << adapterVars, heapVars, bindingVars >>
    /\ UNCHANGED << registeredClasses_, classConstructors_, typeMapping_, isDestroying_,
                    deleterCalls, freeCount, objClass >>
    /\ UNCHANGED << ctorCall, resolved, holderCast, engines, scopes >>

\* Engine::~Engine up to `EngineScope scope(this)`
DestructorEnter(t) ==
    /\ finalizer[t].pc = "idle"
    /\ ~isDestroying_
    /\ locker_(t, ManagedRuntime)
    /\ isDestroying_' = TRUE
    /\ finalizer' = [finalizer EXCEPT ![t] = [pc |-> "teardown", r |-> NullPtr,
                                              runtime |-> ManagedRuntime]]
    /\ scopes' = [scopes EXCEPT
                    !.live[t] = Append(@, [engine_ |-> ManagedRuntime,
                                           prev_ |-> scopes.gCurrentScope_[t]]),
                    !.gCurrentScope_[t] = Len(scopes.live[t]) + 1]
    /\ UNCHANGED << adapterVars, heapVars, bindingVars >>
    /\ UNCHANGED << managedResources_, registeredClasses_, classConstructors_, typeMapping_,
                    weak, deleterCalls, freeCount, objClass, lastOp >>
    /\ UNCHANGED << ctorCall, resolved, holderCast, engines >>

\* Engine::~Engine from the loop over managedResources_ to the end of the scope
DestructorFinish(t) ==
    /\ finalizer[t].pc = "teardown"
    /\ weak' = [r \in Res |-> IF r \in managedResources_ THEN "reset" ELSE weak[r]]
    /\ deleterCalls' = TeardownDeleterCalls
    /\ freeCount' = [r \in Res |-> IF r \in managedResources_ THEN freeCount[r] + 1
                                   ELSE freeCount[r]]
    /\ classConstructors_' = EmptyMap
    /\ registeredClasses_' = EmptyMap
    /\ managedResources_' = {}
    /\ lastOp' = [op |-> "teardown", result |-> "ok"]
    /\ holder' = ReleasedHolders(PayloadsDeleted)
    /\ destroyed' = DestructorRuns(PayloadsDeleted)
    /\ rooted' = [r \in Res |-> FALSE]
    /\ finalizer' = [finalizer EXCEPT ![t] = IdleThread]
    /\ LET n == Len(scopes.live[t])
       IN  scopes' = [scopes EXCEPT
                        !.live[t] = SubSeq(@, 1, n - 1),
                        !.gCurrentScope_[t] = scopeExit(scopes.live[t][n])]
    /\ UNCHANGED << adapterVars, bindingVars >>
    /\ UNCHANGED << typeMapping_, isDestroying_, objClass, parentRef, lastUse >>
    /\ UNCHANGED << ctorCall, resolved, holderCast, engines >>

\* ------------------------------------------------------------------------
\* Engine(Engine&&) = default (Engine.h:20): the member-wise move of an
\* Engine.  isolate_ is a raw pointer and isDestroying_/isExternalIsolate_
\* are bools, so the source keeps them; context_ and the registries are
\* moved out of the source.  Every ManagedResource and every constructor's
\* data holds the `this` of the Engine that made it.
\* ------------------------------------------------------------------------
SourceEngine == 1

MovedEngine == 2

EngineObjs == {SourceEngine, MovedEngine}

NoEngineObj == [constructed |-> FALSE, isolate_ |-> FALSE, context_ |-> FALSE,
                isDestroying_ |-> FALSE, isExternalIsolate_ |-> FALSE,
                managedResources_ |-> {}, classConstructors_ |-> {}]

\* Engine::Engine(): a new isolate and context, empty registries
NewEngineObj == [NoEngineObj EXCEPT !.constructed = TRUE, !.isolate_ = TRUE, !.context_ = TRUE]

NoEngines == [obj         |-> [e \in EngineObjs |-> IF e = SourceEngine THEN NewEngineObj
                                                    ELSE NoEngineObj],
              destructed  |-> {},
              disposed    |-> 0,
              runtime     |-> [r \in Res |-> NullPtr],
              ctorData    |-> [c \in NativeClasses |-> NullPtr],
              deleterRuns |-> [r \in Res |-> 0],
              lastGc      |-> "none",
              crashed     |-> FALSE]

EngineMoved == engines.obj[MovedEngine].constructed

\* the Engine object that holds the registries
OwnerEngine == IF EngineMoved THEN MovedEngine ELSE SourceEngine

EngineUsable(e) ==
    /\ engines.obj[e].constructed
    /\ e \notin engines.destructed
    /\ ~engines.crashed

\* Engine::addManagedResource on the owning engine: ManagedResource{this, ...}
EngineAddManagedResource(r) ==
    /\ EngineUsable(OwnerEngine)
    /\ engines.runtime[r] = NullPtr
    /\ engines' = [engines EXCEPT
                     !.runtime[r] = OwnerEngine,
                     !.obj[OwnerEngine].managedResources_ = @ \cup {r}]
    /\ UNCHANGED << engineVars, adapterVars, heapVars, bindingVars >>
    /\ UNCHANGED << ctorCall, resolved, holderCast, finalizer, scopes >>

\* Engine::newConstructor on the owning engine: data[kCtorExternal_Engine] = External(this)
EngineNewConstructor(c) ==
    /\ EngineUsable(OwnerEngine)
    /\ engines.ctorData[c] = NullPtr
    /\ engines' = [engines EXCEPT
                     !.ctorData[c] = OwnerEngine,
                     !.obj[OwnerEngine].classConstructors_ = @ \cup {c}]
    /\ UNCHANGED << engineVars, adapterVars, heapVars, bindingVars >>
    /\ UNCHANGED << ctorCall, resolved, holderCast, finalizer, scopes >>

\* Engine(Engine&&) noexcept = default
EngineMoveConstruct ==
    /\ ~EngineMoved
    /\ EngineUsable(SourceEngine)
    /\ engines' = [engines EXCEPT
                     !.obj[MovedEngine] = [engines.obj[SourceEngine] EXCEPT !.constructed = TRUE],
                     !.obj[SourceEngine].context_ = FALSE,
                     !.obj[SourceEngine].managedResources_ = {},
                     !.obj[SourceEngine].classConstructors_ = {}]
    /\ UNCHANGED << engineVars, adapterVars, heapVars, bindingVars >>
    /\ UNCHANGED << ctorCall, resolved, holderCast, finalizer, scopes >>

\* The first pass of the weak callback: managed->runtime->managedResources_.find(managed),
\* asserted to be there, then erased.
EngineWeakCallback(r) ==
    /\ engines.runtime[r] # NullPtr
    /\ ~engines.crashed
    /\ engines.deleterRuns[r] = 0
    /\ \E e \in EngineObjs : r \in engines.obj[e].managedResources_
    /\ LET e == engines.runtime[r]
       IN  IF r \in engines.obj[e].managedResources_
           THEN engines' = [engines EXCEPT !.obj[e].managedResources_ = @ \ {r},
                                           !.runtime[r] = NullPtr,
                                           !.lastGc = "erased"]
           ELSE engines' = [engines EXCEPT !.lastGc = "assert_failed", !.crashed = TRUE]
    /\ UNCHANGED << engineVars, adapterVars, heapVars, bindingVars >>
    /\ UNCHANGED << ctorCall, resolved, holderCast, finalizer, scopes >>

\* what entering EngineScope scope(this) in the destructor does when the
\* engine's context_ is empty or its isolate is already disposed
DeadScopeOutcomes == {"crash", "continues"}

\* Engine::~Engine
EngineDestroy(e, ub) ==
    /\ EngineUsable(e)
    /\ LET o == engines.obj[e]
           dead == ~o.context_ \/ engines.disposed > 0
       IN  /\ (ub = "crash") => dead
           /\ IF o.isDestroying_
              THEN engines' = [engines EXCEPT !.destructed = @ \cup {e}]
              ELSE IF dead /\ ub = "crash"
              THEN engines' = [engines EXCEPT !.obj[e].isDestroying_ = TRUE, !.crashed = TRUE]
              ELSE engines' = [engines EXCEPT
                      !.obj[e] = [o EXCEPT !.isDestroying_ = TRUE, !.context_ = FALSE,
                                           !.managedResources_ = {}, !.classConstructors_ = {}],
                      !.deleterRuns = [r \in Res |-> IF r \in o.managedResources_ THEN @[r] + 1
                                                     ELSE @[r]],
                      !.disposed = IF o.isExternalIsolate_ THEN @ ELSE @ + 1,
                      !.destructed = @ \cup {e}]
    /\ UNCHANGED << engineVars, adapterVars, heapVars, bindingVars >>
    /\ UNCHANGED << ctorCall, resolved, holderCast, finalizer, scopes >>

\* ------------------------------------------------------------------------
\* Specifications
\* ------------------------------------------------------------------------
Init ==
    /\ InitEngine
    /\ InitHeap
    /\ castFrame = NoCast
    /\ call = NoCall
    /\ toJsCall = NoToJs
    /\ conv = NoConv
    /\ builder = NoBuilder
    /\ prop = NoProp
    /\ ctorCall = NoCtorCall
    /\ resolved = NoResolved
    /\ holderCast = NoHolderCast
    /\ finalizer = NoFinalizer
    /\ engines = NoEngines
    /\ scopes = NoScopes

Next ==
    \/ \E r \in Res : AddManagedResource(r)
    \/ \E r \in Res : GCFirstPass(r)
    \/ \E r \in Res : GCSecondPass(r)
    \/ Teardown
    \/ \E m \in Metas : RegisterClass(m)
    \/ \E m \in Metas, r \in Res : newInstance(m, r)
    \/ \E m \in Metas, r \in Res, built \in BOOLEAN : ScriptNew(m, r, built)

Spec == Init /\ [][Next]_vars

\* the unknown type identity 0 stands for a type no meta describes
NextCast ==
    \/ \E m \in Metas, p \in Ptrs, t \in TypeIds \cup {0} : CastToCall(m, p, t)
    \/ CastToStep

SpecCast == Init /\ [][NextCast]_vars

NextCall ==
    \/ \E f \in FuncSets, args \in ArgTuples :
          \E throws \in SUBSET (1 .. Len(OverloadTable[f])) : CallBegin(f, args, throws)
    \/ EnterCandidate
    \/ ConvertArg
    \/ InvokeNative

SpecCall == Init /\ [][NextCall]_vars

NextToJs ==
    \/ \E shape \in Shapes, declared \in Policies, parent \in ParentKinds,
          isNull, downcasted, hasClone, constructible, upcastOk \in BOOLEAN :
          ToJsCall(shape, declared, isNull, downcasted, hasClone, constructible, upcastOk, parent)
    \/ ToJsResolvePolicy
    \/ ToJsCreate
    \/ ToJsNewInstance

SpecToJs == Init /\ [][NextToJs]_vars

\* the lifetime of managed objects and their holders
NextHeap ==
    \/ \E m \in HeapMetas : RegisterClass(m)
    \/ \E r \in Res, n \in Originals, policy \in HeapPolicies, parent \in {0} \cup Res :
          HeapToJs(r, n, policy, FALSE, parent)
    \/ \E r \in Res : DropReference(r)
    \/ \E r \in Res : Finalize(r)
    \/ \E r \in Res : GCFirstPass(r)
    \/ \E r \in Res : GCSecondPass(r)
    \/ Teardown

SpecHeap == Init /\ [][NextHeap]_vars

\* callbacks using the payloads of managed objects
NextUse ==
    \/ \E m \in HeapMetas : RegisterClass(m)
    \/ \E r \in Res, n \in Originals, policy \in HeapPolicies, isConst \in BOOLEAN :
          HeapToJs(r, n, policy, isConst, 0)
    \/ \E r \in Res : Finalize(r)
    \/ \E r \in Res, kind \in UseKinds, constT \in BOOLEAN, ub \in NullHolderOutcomes :
          Use(r, kind, constT, ub)

SpecUse == Init /\ [][NextUse]_vars

\* round trips of values through the type converters
NextConv ==
    \/ \E T \in NestedTypes \cup WideTypes : \E v \in CppValues(T) : ConvStart(T, v)
    \/ ConvToJs
    \/ ConvToCpp

SpecConv == Init /\ [][NextConv]_vars

\* the constructor of ClassMetaBuilder on every class name
NextBuilder ==
    \/ \E name \in ClassNames : ClassMetaBuilder(name)
    \/ BuilderCheckEnds
    \/ BuilderScan

SpecBuilder == Init /\ [][NextBuilder]_vars

\* script access to the properties of bound classes
NextProp ==
    \/ \E kind \in PropKinds, hasSetter \in BOOLEAN, v \in PropValues :
          RegisterProperty(kind, hasSetter, v)
    \/ \E v \in PropValues, strict \in BOOLEAN : ScriptWrite(v, strict)
    \/ ScriptRead

SpecProp == Init /\ [][NextProp]_vars

\* calls of the constructor functions of registered classes
NextCtor ==
    \/ \E m \in Metas : RegisterClass(m)
    \/ \E m \in Metas, r \in Res, how \in CtorCallers, yields \in CtorYields :
          ConstructorCall(m, r, how, yields)

SpecCtor == Init /\ [][NextCtor]_vars

\* resolution of the class and address of native objects handed to toJs
\* the metas of the classes of the chain (Animal under two names)
ChainMetas == { m \in Metas : MetaTable[m].typeId \in NativeClasses }

\* classes are registered first, then values cross the boundary, each resolved
\* and then wrapped in a holder that is cast once
NextResolve ==
    \/ \E m \in ChainMetas : resolved.out.result = "none" /\ RegisterClass(m)
    \/ \E T, R \in NativeClasses, d \in Ptrs, poly \in BOOLEAN :
          holderCast.made = "none" /\ ResolveCastSource(T, R, d, poly)
    \/ \E policy \in HeapPolicies, layout \in HolderLayouts, hasClone, constructible \in BOOLEAN,
          c \in NativeClasses :
          CreateAndCast(policy, layout, hasClone, constructible, MetaTable[c].typeId)

SpecResolve == Init /\ [][NextResolve]_vars

\* engine scopes entered, left and queried by two threads
NextScope ==
    \/ \E t \in Threads, e \in ScopeEngines : EnterScope(t, e)
    \/ \E t \in Threads : LeaveScope(t)
    \/ \E t \in Threads : CurrentEngineChecked(t)

SpecScope == Init /\ [][NextScope]_vars

\* the lifetime manager worked on by script threads and the collector's thread
NextThreads ==
    \/ \E t \in Threads, e \in ScopeEngines : EnterScope(t, e)
    \/ \E t \in Threads : LeaveScope(t)
    \/ \E t \in Threads, r \in Res : ThreadAddEnter(t, r)
    \/ \E t \in Threads : ThreadAddEmplace(t)
    \/ \E g \in Threads, r \in Res : WeakCallbackEnter(g, r)
    \/ \E g \in Threads : WeakCallbackErase(g)
    \/ \E r \in Res : GCSecondPass(r)
    \/ \E t \in Threads : DestructorEnter(t)
    \/ \E t \in Threads : DestructorFinish(t)

SpecThreads == Init /\ [][NextThreads]_vars

\* an engine that is move-constructed from, used and destroyed
NextMove ==
    \/ \E r \in Res : EngineAddManagedResource(r)
    \/ \E c \in NativeClasses : EngineNewConstructor(c)
    \/ EngineMoveConstruct
    \/ \E r \in Res : EngineWeakCallback(r)
    \/ \E e \in EngineObjs, ub \in DeadScopeOutcomes : EngineDestroy(e, ub)

SpecMove == Init /\ [][NextMove]_vars

\* ------------------------------------------------------------------------
\* Properties of the lifetime manager and the registry
\* ------------------------------------------------------------------------
Registered == DOMAIN classConstructors_

C2_NoDoubleDelete ==
    \A r \in Res :
        /\ deleterCalls[r] <= 1
        /\ freeCount[r] <= 1
        /\ weak[r] \in {"pending", "done"} => r \notin managedResources_

C2_Witness ==
    /\ isDestroying_
    /\ \E r1, r2 \in Res : /\ weak[r1] = "done" /\ freeCount[r1] = 1
                           /\ weak[r2] = "reset" /\ freeCount[r2] = 1

\* C3: teardown calls the deleter of every record still in
\* managedResources_ exactly once and empties managedResources_,
\* registeredClasses_ and classConstructors_; a teardown with isDestroying_
\* already set calls no deleter and changes nothing.
C3_TeardownOnceThenNoop ==
    [][ lastOp'.op = "teardown" =>
          IF isDestroying_
          THEN UNCHANGED << managedResources_, registeredClasses_, classConstructors_,
                            typeMapping_, isDestroying_, weak, deleterCalls, freeCount >>
          ELSE /\ \A r \in Res : deleterCalls'[r] =
                                   deleterCalls[r] + (IF r \in managedResources_ THEN 1 ELSE 0)
               /\ managedResources_' = {}
               /\ registeredClasses_' = EmptyMap
               /\ classConstructors_' = EmptyMap ]_vars

C3_Witness ==
    /\ lastOp = [op |-> "teardown", result |-> "noop"]
    /\ \E r \in Res : weak[r] = "reset" /\ deleterCalls[r] = 1
    /\ managedResources_ = {}

\* C4: registerClass rejects a meta whose name or typeIdentity was
\* registered before, so no two registered classes share a typeIdentity and
\* getClassDefine(m.typeId_) is m for every registered m.
C4_TypeIdentityUnique ==
    /\ \A m1, m2 \in Registered :
           MetaTable[m1].typeId = MetaTable[m2].typeId => m1 = m2
    /\ \A m \in Registered : getClassDefine(MetaTable[m].typeId) = m

\* C5: a meta with a base is registered only when its base is already
\* registered and has a constructor, and a rejected registration leaves the
\* three maps unchanged; so the base of every registered class is itself
\* registered and has a constructor.
C5_BaseRegisteredFirst ==
    /\ [](\A m \in Registered :
            MetaTable[m].base # NoMeta =>
                MetaTable[m].base \in Registered /\ hasConstructor(MetaTable[m].base))
    /\ [][ /\ \A m \in Metas :
                (m \notin Registered /\ m \in DOMAIN classConstructors_' /\ MetaTable[m].base # NoMeta) =>
                    MetaTable[m].base \in Registered /\ hasConstructor(MetaTable[m].base)
           /\ (lastOp'.op = "registerClass" /\ lastOp'.result # "ok") =>
                UNCHANGED << registeredClasses_, classConstructors_, typeMapping_ >> ]_vars

C5_Witness ==
    /\ lastOp = [op |-> "registerClass", result |-> "base_not_registered"]
    /\ \E m \in Registered : MetaTable[m].base # NoMeta

\* C6: for registered classes C and D and a live object created for C,
\* isInstanceOf(o, D) holds exactly when C.isA(D.typeId_) holds.
C6_InstanceOfAgreesWithIsA ==
    \A r \in Res :
        (weak[r] = "weak" /\ objClass[r] \in Registered) =>
            \A d \in Registered :
                isInstanceOf(r, d) <=> isA(objClass[r], MetaTable[d].typeId)

\* ------------------------------------------------------------------------
\* Properties of castTo
\* ------------------------------------------------------------------------

\* the metas from m up its base chain, m first
RECURSIVE BasePath(_)
BasePath(m) == IF m = NoMeta THEN << >> ELSE << m >> \o BasePath(MetaTable[m].base)

\* number of base links above m
Depth(m) == Len(BasePath(m)) - 1

RECURSIVE SumOffsets(_, _)
SumOffsets(path, n) == IF n = 0 THEN 0 ELSE SumOffsets(path, n - 1) + MetaTable[path[n]].offset

\* what castTo is to return: the pointer carried through the upcasters of
\* every class below the first one on the chain whose typeId is the target,
\* null when there is none or when a class below it has no upcaster
CastExpected(m, p, t) ==
    LET path == BasePath(m)
        hits == { i \in 1 .. Len(path) : MetaTable[path[i]].typeId = t }
    IN  IF hits = {} THEN NullPtr
        ELSE LET i == CHOOSE k \in hits : \A j \in hits : k <= j
             IN  IF \A j \in 1 .. (i - 1) : MetaTable[path[j]].hasUpcaster
                 THEN p + SumOffsets(path, i - 1)
                 ELSE NullPtr

\* C7: castTo returns ptr unchanged for the class's own typeId, otherwise
\* recurses through upcaster_ into base_ or returns null; on a chain of
\* depth d it finishes within d+1 activations with the composition of the
\* upcasters up to the target ancestor, or null when none is reachable.
C7_CastToComposesUpcasters ==
    castFrame.stage = "done" =>
        /\ castFrame.steps <= Depth(castFrame.from) + 1
        /\ castFrame.result = CastExpected(castFrame.from, castFrame.arg, castFrame.target)
        /\ MetaTable[castFrame.from].typeId = castFrame.target => castFrame.result = castFrame.arg

C7_Witness ==
    /\ castFrame.stage = "done"
    /\ castFrame.from = 3
    /\ castFrame.target = 1
    /\ castFrame.steps = 3
    /\ castFrame.result = castFrame.arg + 3

\* ------------------------------------------------------------------------
\* Properties of the function adapter
\* ------------------------------------------------------------------------

\* candidate k of the call completes: the count matches, every argument
\* converts and the native body does not raise
Completes(c, k) ==
    LET sig == Candidates(c)[k] IN
    /\ Len(c.args) = Len(sig)
    /\ \A a \in 1 .. Len(sig) : toCppOk(sig[a], c.args[a])
    /\ k \notin c.throws

Overloaded(c) == Len(Candidates(c)) > 1

\* C8: a call to an overload set returns the result of the first candidate
\* in registration order that completes without raising an Exception, and
\* fails with 'no overload found' when every candidate raises; with
\* (string,string) then (string,int), a (string,int) call returns the
\* second candidate's result and an (int,string) call finds no overload.
C8_FirstMatchingOverload ==
    (call.stage = "done" /\ Overloaded(call)) =>
        LET good == { k \in 1 .. Len(Candidates(call)) : Completes(call, k) } IN
        /\ good # {} =>
              /\ call.outcome.kind = "value"
              /\ call.outcome.by \in good
              /\ \A k \in good : call.outcome.by <= k
        /\ good = {} =>
              /\ call.outcome.kind = "error"
              /\ call.outcome.msg = "no overload found"
        /\ (call.set = 1 /\ call.throws = {} /\ call.args = <<"string", "number">>) =>
              call.outcome = [kind |-> "value", by |-> 2, msg |-> ""]
        /\ (call.set = 1 /\ call.args = <<"number", "string">>) =>
              call.outcome.kind = "error" /\ call.outcome.msg = "no overload found"

C8_Witness ==
    /\ call.stage = "done"
    /\ call.set = 1
    /\ call.args = <<"string", "number">>
    /\ call.conv = <<2, 2>>
    /\ call.outcome = [kind |-> "value", by |-> 2, msg |-> ""]

\* the candidates whose callback has been entered and left
Left(c) == { k \in 1 .. Len(Candidates(c)) : k < c.i \/ (k = c.i /\ c.stage = "done") }

\* a call with a wrong argument count fails with 'argument count mismatch'
\* before any argument is converted and without invoking the native function
CountMismatchRejected(c) ==
    \A k \in Left(c) :
        Len(c.args) # Len(Candidates(c)[k]) =>
            /\ c.conv[k] = 0
            /\ c.inv[k] = 0
            /\ ~Overloaded(c) => (c.outcome.kind = "error" /\ c.outcome.msg = "argument count mismatch")

\* C9 as stated: with a wrong argument count the call is rejected before
\* any conversion; with exactly N arguments the N arguments are converted
\* and the native function is invoked exactly once.
C9_ExactCountAlwaysInvokes ==
    /\ CountMismatchRejected(call)
    /\ \A k \in Left(call) :
          Len(call.args) = Len(Candidates(call)[k]) =>
              call.conv[k] = Len(call.args) /\ call.inv[k] = 1

\* the arguments of candidate k that convert, counted from the first one up
\* to the first that does not
RECURSIVE ConvertiblePrefix(_, _, _)
ConvertiblePrefix(sig, args, a) ==
    IF a > Len(sig) THEN 0
    ELSE IF toCppOk(sig[a], args[a]) THEN 1 + ConvertiblePrefix(sig, args, a + 1)
    ELSE 0

\* C9 amended: with exactly N arguments the arguments are converted in
\* order; the native function is invoked exactly once when all N convert,
\* and when one does not, no later argument is converted and the native
\* function is not invoked.
C9_CountCheckedBeforeConversion ==
    /\ CountMismatchRejected(call)
    /\ \A k \in Left(call) :
          LET sig == Candidates(call)[k]
              n == Len(call.args)
              good == IF n = Len(sig) THEN ConvertiblePrefix(sig, call.args, 1) ELSE 0
          IN  n = Len(sig) =>
                IF good = n
                THEN call.conv[k] = n /\ call.inv[k] = 1
                ELSE call.conv[k] = good + 1 /\ call.inv[k] = 0

C9_Witness ==
    /\ call.stage = "done"
    /\ call.set = 2
    /\ call.args = <<"number", "number", "number">>
    /\ call.conv = <<0>>
    /\ call.inv = <<0>>
    /\ call.outcome.msg = "argument count mismatch"

\* ------------------------------------------------------------------------
\* Properties of the return value policy
\* ------------------------------------------------------------------------

Materialized(c) ==
    /\ c.stage \in {"created", "done"}
    /\ ~(c.shape = "pointer" /\ c.isNull)

C12_TakeOwnershipNeedsPointer ==
    (Materialized(toJsCall) /\ toJsCall.policy = "TakeOwnership") =>
        IF toJsCall.shape # "pointer"
        THEN /\ toJsCall.outcome = "error_take_ownership"
             /\ toJsCall.instances = 0
             /\ toJsCall.objects = 0
        ELSE /\ toJsCall.outcome = "owned_pointer"
             /\ toJsCall.instances = 1
             /\ toJsCall.stage = "done" => toJsCall.objects = 1

C12_Witness ==
    /\ toJsCall.stage = "done"
    /\ toJsCall.declared = "TakeOwnership"
    /\ toJsCall.shape = "lvalue_ref"
    /\ toJsCall.outcome = "error_take_ownership"
    /\ toJsCall.instances = 0

\* ------------------------------------------------------------------------
\* Properties of holders and managed objects
\* ------------------------------------------------------------------------

\* the managed object of record r is gone: collected, or its engine torn down
ObjectGone(r) == weak[r] \in {"done", "reset"}

\* C13: a holder made under Reference or ReferenceInternal never destroys
\* the native object, and one made under Copy, Move or TakeOwnership
\* destroys the object it holds exactly once, when the holder goes (by
\* finalize, by collection of its managed object or by engine teardown):
\* every destructor run belongs to one released owning holder of that
\* object, and once the managed object of an owning holder is gone the
\* holder is released and the object it held destroyed.
C13_OwnershipFollowsPolicy ==
    /\ \A n \in NativeIds :
          /\ destroyed[n] <= 1
          /\ destroyed[n] = Cardinality({ r \in Res : /\ holder[r].owned
                                                      /\ holder[r].native = n
                                                      /\ holder[r].state = "released" })
    /\ \A r \in Res :
          (holder[r].owned /\ ObjectGone(r)) =>
              /\ holder[r].state = "released"
              /\ destroyed[holder[r].native] = 1

C15_ConstHolderRejectsMutableUnwrap ==
    [][ \A r \in Res, kind \in UseKinds, ub \in NullHolderOutcomes :
            (holder[r].state = "held" /\ holder[r].const) =>
                /\ Use(r, kind, FALSE, ub) =>
                      /\ lastUse'.result = "error_const"
                      /\ ~lastUse'.wrote
                /\ Use(r, kind, TRUE, ub) =>
                      lastUse'.result = "pointer" ]_vars

C15_Witness ==
    /\ lastUse.kind = "method"
    /\ lastUse.result = "error_const"
    /\ \E r \in Res : holder[r].state = "held" /\ holder[r].const /\ ~holder[r].owned

\* C16: finalize releases the held native object once, a second finalize
\* does nothing, and every use of a finalized instance fails (a null
\* result from the payload's unwrap, an error from a callback or from
\* toCpp) instead of handing out or dereferencing a pointer.
C16_FinalizedInstanceFailsSafely ==
    /\ \A n \in NativeIds : destroyed[n] <= 1
    /\ lastUse.finalized =>
          /\ lastUse.result \in {"null", "error_destroyed"}
          /\ ~lastUse.wrote

\* ------------------------------------------------------------------------
\* Properties of the type converters
\* ------------------------------------------------------------------------

\* an optional directly inside an optional
OptionalOfOptional(T) ==
    \E i \in 1 .. (Len(T) - 1) : T[i] = "optional" /\ T[i + 1] = "optional"

RoundTrips == conv.back = Ok(conv.val)

\* C17 as stated: for every type built from bool, 32-bit int and string by
\* any nesting of vector and optional, toCpp<T>(toJs(v)) = v (so an empty
\* optional comes back empty at whatever level it is).
C17_RoundTripAnyNesting ==
    (conv.stage = "back" /\ conv.type \in NestedTypes) => RoundTrips

\* C17: for every type built from bool, 32-bit int and string by a nesting
\* of vector and optional in which no optional directly wraps another
\* optional, toCpp<T>(toJs(v)) = v (so an empty optional comes back empty
\* at whatever level it is).
C17_RoundTripUnlessOptionalOfOptional ==
    (conv.stage = "back" /\ conv.type \in NestedTypes /\ ~OptionalOfOptional(conv.type))
        => RoundTrips

C17_Witness ==
    /\ conv.stage = "back"
    /\ conv.type = << "vector", "optional", "int" >>
    /\ Len(conv.val) = 2
    /\ ~conv.val[1].has
    /\ conv.val[2].has
    /\ RoundTrips

\* the BigInt whose mathematical value is that of the native value x of
\* the 64-bit type l
MathValue(l, x) ==
    IF l = "int64" /\ TopBit(x)
    THEN [kind |-> "bigint", neg |-> TRUE, mag |-> Negate64(x)]
    ELSE [kind |-> "bigint", neg |-> FALSE, mag |-> x]

\* C18: toJs of an int64_t or uint64_t gives the BigInt whose mathematical
\* value is the native value, also for a uint64_t above 2^63 - 1, and
\* toCpp of that BigInt gives the native value back.
C18_WideIntegersKeepTheirValue ==
    /\ (conv.stage \in {"js", "back"} /\ conv.type \in WideTypes) =>
            conv.js = MathValue(conv.type[1], conv.val)
    /\ (conv.stage = "back" /\ conv.type \in WideTypes) => RoundTrips

\* ------------------------------------------------------------------------
\* Properties of class names
\* ------------------------------------------------------------------------

\* non-empty, no dot first or last, no two dots in a row
WellFormedName(name) ==
    /\ Len(name) > 0
    /\ name[1] # "."
    /\ name[Len(name)] # "."
    /\ \A i \in 1 .. (Len(name) - 1) : ~(name[i] = "." /\ name[i + 1] = ".")

\* C19: ClassMetaBuilder(name) returns a builder exactly when name is
\* non-empty, neither begins nor ends with '.' and has no two consecutive
\* '.'; for every other name it throws std::invalid_argument and no
\* builder is made.
C19_NameAcceptedIffWellFormed ==
    builder.stage = "done" =>
        /\ builder.result \in {"built", "invalid_argument"}
        /\ builder.result = "built" <=> WellFormedName(builder.name)

C19_Witness ==
    /\ builder.stage = "done"
    /\ builder.name = << "a", ".", ".", "a" >>
    /\ builder.result = "invalid_argument"

\* ------------------------------------------------------------------------
\* Properties of read-only properties
\* ------------------------------------------------------------------------

\* C20: a script write to a property registered without a setter, static
\* or instance, raises a TypeError and leaves the native value as it was,
\* and a read that follows returns the value from before the write.
C20_ReadOnlyWriteRaisesTypeError ==
    /\ (prop.last.op = "write" /\ ~prop.hasSetter) =>
            /\ prop.last.error = "TypeError"
            /\ prop.value = prop.last.before
    /\ (prop.last.op = "read" /\ prop.last.afterReadOnlyWrite) =>
            prop.last.got = prop.last.before

\* ------------------------------------------------------------------------
\* Properties of the constructor function
\* ------------------------------------------------------------------------

\* the records managed by the engine or collected since
Managed == { r \in Res : weak[r] # "none" }

MetaAtCall(c) ==
    IF MetaTable[c].typeId \in DOMAIN resolved.mapping
    THEN resolved.mapping[MetaTable[c].typeId] ELSE NoMeta

TypeRegistered(c) == MetaAtCall(c) # NoMeta

\* the meta registered for the first registered class on the base chain of R
NearestRegisteredAncestor(R) ==
    LET path == ClassChain(R)
        regs == { i \in 1 .. Len(path) : TypeRegistered(path[i]) }
    IN  IF regs = {} THEN NoMeta
        ELSE MetaAtCall(path[CHOOSE i \in regs : \A j \in regs : i <= j])

\* resolveCastSource was called for a polymorphic object whose class is
\* not registered
ResolvedUnregistered ==
    /\ resolved.out.result # "none"
    /\ resolved.poly
    /\ ~TypeRegistered(resolved.R)

\* C22 as stated: for a T* to an object whose runtime type R is not
\* registered, the resolver selects the metadata of the nearest registered
\* ancestor of R, which may be more derived than T.
C22_FallbackToNearestRegisteredAncestor ==
    ResolvedUnregistered => resolved.out.meta = NearestRegisteredAncestor(resolved.R)

\* C22: for a T* to an object whose runtime type R is not registered, the
\* resolver selects the metadata registered for the static type T, also
\* when a class between T and R is registered.
C22_FallbackToStaticType ==
    ResolvedUnregistered =>
        resolved.out.meta = MetaAtCall(resolved.T)

C22_Witness ==
    /\ ResolvedUnregistered
    /\ resolved.out.result = "ok"
    /\ resolved.T = 1
    /\ resolved.R = 3
    /\ TypeRegistered(2)
    /\ resolved.out.meta = MetaAtCall(1)

\* C23: in every result of resolveCastSource ptr is the address at which
\* the object has the class meta describes: the most-derived address when
\* the runtime type's metadata was found, the caller's pointer when the
\* resolver fell back to the static type, and never the most-derived
\* address with fallback metadata; when neither the runtime type nor the
\* static type is registered the resolution fails as not registered.
C23_ResolvedPointerMatchesMeta ==
    /\ resolved.out.result = "ok" =>
          LET t == MetaTable[resolved.out.meta].typeId
              cls == { c \in NativeClasses : MetaTable[c].typeId = t /\ ChainIndex(resolved.R, c) # 0 }
          IN  /\ cls # {}
              /\ \A c \in cls : resolved.out.ptr = SubobjectAt(resolved.R, resolved.base, c)
              /\ resolved.out.is_downcasted =>
                    resolved.out.meta = MetaAtCall(IF resolved.poly THEN resolved.R ELSE resolved.T)
              /\ ~resolved.out.is_downcasted => resolved.out.ptr = resolved.value
    /\ (resolved.T # NoMeta /\ ~TypeRegistered(resolved.T) /\ ~TypeRegistered(resolved.R)) =>
          resolved.out.result = "not_registered"

C23_Witness ==
    /\ resolved.out.result = "ok"
    /\ ~resolved.out.is_downcasted
    /\ resolved.poly
    /\ resolved.value # resolved.base
    /\ resolved.out.ptr = resolved.value

\* C26: whenever NativeInstance::cast succeeds on a holder, the address it
\* returns is that of the subobject of the target class in the native
\* object the holder itself holds, which for a holder made under Copy or
\* Move is the new object and not the source.
C26_CastStaysInHeldObject ==
    (holderCast.made \in HolderOutcomes /\ holderCast.result # NullPtr) =>
        \E c \in NativeClasses :
            /\ MetaTable[c].typeId = holderCast.target
            /\ ChainIndex(holderCast.heldClass, c) # 0
            /\ holderCast.result = SubobjectAt(holderCast.heldClass, holderCast.heldBase, c)

\* C28: resolveCastSource reports is_downcasted only for a polymorphic
\* object whose runtime class differs from the static class T; for an
\* object whose class is exactly T, and for every object of a
\* non-polymorphic T, Copy and Move succeed whenever T is copy (move)
\* constructible, with or without clone hooks in the metadata.
C28_DowncastOnlyWhenTypesDiffer ==
    /\ resolved.out.is_downcasted => (resolved.poly /\ resolved.R # resolved.T)
    /\ (/\ holderCast.made # "none"
        /\ holderCast.policy \in {"Copy", "Move"}
        /\ (resolved.R = resolved.T \/ ~resolved.poly)
        /\ holderCast.constructible) => holderCast.made \in HolderOutcomes


\* the engine of the scope a thread constructed last among its live ones
InnermostEngine(t) ==
    IF Len(scopes.live[t]) = 0 THEN NullPtr
    ELSE scopes.live[t][Len(scopes.live[t])].engine_

\* C30: EngineScope is a per-thread stack: a thread's current engine is the
\* engine of its innermost live scope and null when it has none; a Checked
\* accessor throws the logic error exactly when the calling thread has no
\* live scope; and a scope entered or left on one thread leaves every other
\* thread's current engine as it was.
C30_EngineScopeIsPerThreadStack ==
    /\ [](/\ \A t \in Threads : currentEngine(t) = InnermostEngine(t)
          /\ scopes.checked.result # "none" =>
                /\ (scopes.checked.result = "logic_error") <=> (scopes.checked.live = 0)
                /\ (scopes.checked.result = "ok") => (scopes.checked.engine # NullPtr))
    /\ [][\A t \in Threads, u \in Threads :
             (t # u /\ scopes'.live[t] # scopes.live[t])
                => (currentEngine(u))' = currentEngine(u)]_vars

C30_Witness ==
    \E t \in Threads, u \in Threads :
        /\ t # u
        /\ Len(scopes.live[t]) = 2
        /\ scopes.live[t][1].engine_ # scopes.live[t][2].engine_
        /\ currentEngine(t) = scopes.live[t][2].engine_
        /\ Len(scopes.live[u]) = 0
        /\ scopes.checked = [thread |-> u, result |-> "logic_error", engine |-> NullPtr, live |-> 0]


\* C29: after an Engine is move-constructed from another, destroying both
\* disposes the isolate exactly once and runs each managed resource's
\* deleter exactly once, and the Engine pointer kept in every
\* ManagedResource and in every constructor's data made before the move is
\* the Engine that now owns the registries.
C29_MoveLeavesOneOwner ==
    EngineMoved =>
        /\ \A r \in engines.obj[OwnerEngine].managedResources_ : engines.runtime[r] = OwnerEngine
        /\ \A c \in engines.obj[OwnerEngine].classConstructors_ : engines.ctorData[c] = OwnerEngine
        /\ engines.destructed = EngineObjs =>
              /\ engines.disposed = 1
              /\ \A r \in Res : engines.runtime[r] # NullPtr => engines.deleterRuns[r] = 1


\* C24: the weak callback may run on a thread other than the script thread:
\* while it is inside its mutation of managedResources_ no other thread is
\* inside addManagedResource's or the teardown's, and it finds its engine
\* through the record, with or without an EngineScope live on its thread.
C24_FinalizerExcludesScriptMutations ==
    \A g \in Threads :
        finalizer[g].pc = "first_pass" =>
            /\ finalizer[g].runtime = ManagedRuntime
            /\ \A t \in Threads \ {g} : finalizer[t].pc = "idle"

C24_Witness ==
    \E g \in Threads, t \in Threads :
        /\ g # t
        /\ finalizer[g].pc = "first_pass"
        /\ scopes.live[g] = << >>
        /\ currentEngine(g) = NullPtr
        /\ finalizer[t].pc = "idle"
        /\ managedResources_ = Res


\* the candidates of the call whose native body ran
BodiesRun == { k \in DOMAIN call.inv : call.inv[k] > 0 }

\* C25: within one call to an overload set at most one candidate's native
\* body executes: once a candidate's arguments all converted and its body
\* raised an Exception, no later candidate is entered and the caller gets
\* that candidate's error as it was raised.
C25_NativeErrorEndsDispatch ==
    /\ Cardinality(BodiesRun) <= 1
    /\ \A k \in BodiesRun :
          k \in call.throws =>
              /\ call.stage = "done"
              /\ call.i = k
              /\ call.outcome = [kind |-> "error", by |-> k, msg |-> "native error"]


\* C27: the policy handed to instance creation is never Automatic: for each
\* static shape (raw pointer, lvalue reference, rvalue reference, by-value)
\* a declared Automatic resolves to one of the five concrete policies, so a
\* call under the default policy never ends with 'Unknown return value
\* policy'.
C27_AutomaticAlwaysResolved ==
    (toJsCall.stage \in {"resolved", "created", "done"} /\ toJsCall.declared = "Automatic") =>
        /\ toJsCall.policy \in Policies \ {"Automatic"}
        /\ toJsCall.outcome # "error_unknown_policy"

====
